---- MODULE Spec2Model ----
(***************************************************************************)
(* Settlement and credit metering of the buyer and seller agents:          *)
(*   - Budget (buyer-simple-agent/src/budget.py): daily / per-request      *)
(*     spending tracker;                                                   *)
(*   - the buyer's purchase tools (strands_agent.py, tools/purchase.py,    *)
(*     tools/purchase_a2a.py) running concurrently against one Budget;     *)
(*   - the seller's A2A executor (seller-simple-agent/src/agent_a2a.py);   *)
(*   - the seller's HTTP endpoint POST /data (kit-b-selling-agent);        *)
(*   - the credit functions (_calculate_credits, _summarize_credits,       *)
(*     _research_credits);                                               *)
(*   - the buyer's seller registry (buyer-simple-agent/src/registry.py)    *)
(*     and purchase_a2a's look-up of cached payment details;               *)
(*   - what callers hold after get_status and list_all;                    *)
(*   - the scripted client (buyer-simple-agent/src/client.py);             *)
(*   - _extract_from_events (tools/purchase_a2a.py);                       *)
(*   - the seller's registration with the buyer (_register_with_buyer).    *)
(* The repository holds several programs.  The variable `program` says     *)
(* which of them a behaviour is a run of; every action belongs to one      *)
(* program and leaves the state of the others alone.                       *)
(***************************************************************************)
EXTENDS Integers, Sequences, FiniteSets, TLC

VARIABLES
    program,          \* which program of the repository is running
    today,            \* the UTC calendar date (a day number): datetime.now(timezone.utc).date()
    \* ---- Budget (budget.py) ----
    max_daily,        \* Budget._max_daily
    max_per_request,  \* Budget._max_per_request
    daily_spend,      \* Budget._daily_spend
    total_spend,      \* Budget._total_spend
    purchase_count,   \* Budget._purchase_count
    current_day,      \* Budget._current_day
    purchases,        \* Budget._purchases
    ret,              \* program "budget": what the last Budget method call returned
    \* ---- buyer purchase tools (strands_agent.py) ----
    bpc,              \* per buyer thread: where it is in purchase_data / purchase_a2a
    breq,             \* per buyer thread: the locals of its current tool call
    today_log,        \* history: the credits of the record_purchase calls since the last rollover
    \* ---- threads calling the Budget's methods ----
    lock,             \* Budget._lock: the thread that holds it, 0 when free
    thr,              \* per thread: the method it is in, where, and its locals
    calls,            \* history: the credits of the completed record_purchase calls
    \* ---- seller A2A executor (agent_a2a.py) ----
    credit_map,       \* StrandsA2AExecutor._credit_map
    messages,         \* agent.messages of the executor's one Strands agent
    tpc,              \* per task: where its execute() run is
    tloc,             \* per task: the locals of its execute() run
    events,           \* per task: the events enqueued on its event queue, in order
    cancels,          \* the cancel() calls made so far
    \* ---- credit functions called on their own ----
    ctx,              \* the context dict handed to a dynamic credit function
    call,             \* the credit function applied and what it returned
    \* ---- seller HTTP endpoint (kit-b-selling-agent agent.py) ----
    hpc,              \* where the handler of POST /data is
    hreq,             \* the locals of the request being handled
    responses,        \* the responses sent so far, in order
    analytics,        \* Analytics._total_requests, Analytics._total_credits
    \* ---- buyer seller registry (registry.py) ----
    sellers,          \* SellerRegistry._sellers: the dict's entries in insertion order
    rlock,            \* SellerRegistry._lock: the thread that holds it, 0 when free
    rthr,             \* per registry client thread: the call it is in, where, and its locals
    reg_log,          \* history: the arguments of the register calls, in the order they stored
    \* ---- callers and scripts ----
    held,             \* the value a caller holds from get_status() or list_all()
    script,           \* client.py main(): where it is and the result of its purchase
    extract,          \* _extract_from_events: the events collected and the dict returned
    registration      \* _register_with_buyer: where it is, the attempt, the POSTs made

budgetVars == <<max_daily, max_per_request, daily_spend, total_spend,
                purchase_count, current_day, purchases, today_log>>
buyerVars  == <<bpc, breq>>
a2aVars    == <<credit_map, messages, tpc, tloc, events, cancels>>
threadVars == <<lock, thr, calls>>
buyerSide  == <<today, budgetVars, ret, buyerVars, threadVars>>
fnVars     == <<ctx, call>>
httpVars   == <<hpc, hreq, responses, analytics>>
sellerSide == <<a2aVars, fnVars, httpVars>>
registryVars == <<sellers, rlock, rthr, reg_log>>
scriptVars == <<held, script, extract, registration>>
toolSide   == <<registryVars, scriptVars>>
vars == <<program, toolSide, buyerSide, threadVars, sellerSide>>

----------------------------------------------------------------------------
(* Bounds of the model *)

MaxCredits == 3        \* credit amounts range over 0..MaxCredits
MaxDay == 1            \* the clock runs over days 0..MaxDay
MaxPurchases == 3      \* record_purchase calls per run
NumBuyers == 2         \* concurrent buyer threads (tool calls in flight)
NumTasks == 2          \* A2A tasks per run of the seller
MaxToolUses == 1       \* tool invocations of one agent invocation
MaxCancels == 1        \* cancel() calls per run of the seller

(* Configurations and inputs *)

DailyLimits == {0, 2, 4}        \* MAX_DAILY_SPEND  (0 = unlimited)
PerRequestLimits == {0, 2}      \* MAX_PER_REQUEST  (0 = unlimited)
Sellers == {"seller-1"}
QueryLens == {40, 150}          \* a query is modelled by its length
BuyerQueryLens == {40}          \* the queries of the buyer's tool calls
QueryCut == 100                 \* query[:100]

Buyers == 1..NumBuyers

Min(a, b) == IF a < b THEN a ELSE b
Max(a, b) == IF a > b THEN a ELSE b

RECURSIVE SumSeq(_)
SumSeq(s) == IF s = <<>> THEN 0 ELSE Head(s) + SumSeq(Tail(s))

----------------------------------------------------------------------------
(* Budget *)

\* a rollover that notes the new day and forgets to clear the counter
reset_if_new_day_keeps_spend ==
    [daily_spend |-> daily_spend, current_day |-> today]

\* _reset_if_new_day: the daily counter and the observed day after the call
\* a rollover that clears the day's spend on every call
reset_if_new_day_every_call == [daily_spend |-> 0, current_day |-> today]

reset_if_new_day ==
    IF today # current_day
    THEN [daily_spend |-> 0, current_day |-> today]
    ELSE [daily_spend |-> daily_spend, current_day |-> current_day]

\* the history of today's recorded credits after the rollover
rolled_log == IF today # current_day THEN <<>> ELSE today_log

\* can_spend with the daily comparison off by one (>= for >)
can_spend_result_off_by_one(credits, spend) ==
    IF max_per_request > 0 /\ credits > max_per_request
    THEN [allowed |-> FALSE, reason |-> "per_request",
          cites |-> <<credits, max_per_request>>]
    ELSE IF max_daily > 0 /\ (spend + credits) >= max_daily
    THEN [allowed |-> FALSE, reason |-> "daily",
          cites |-> <<credits, max_daily - spend, max_daily>>]
    ELSE [allowed |-> TRUE, reason |-> "OK", cites |-> <<>>]

\* the body of can_spend after the rollover: (allowed, reason).  The reason
\* is modelled by its template and the numbers it cites, in order.
can_spend_result(credits, spend) ==
    IF max_per_request > 0 /\ credits > max_per_request
    THEN [allowed |-> FALSE, reason |-> "per_request",
          cites |-> <<credits, max_per_request>>]
    ELSE IF max_daily > 0 /\ (spend + credits) > max_daily
    THEN [allowed |-> FALSE, reason |-> "daily",
          cites |-> <<credits, max_daily - spend, max_daily>>]
    ELSE [allowed |-> TRUE, reason |-> "OK", cites |-> <<>>]

\* Budget.can_spend(credits), under the lock
can_spend(credits) ==
    LET r == reset_if_new_day IN
    /\ daily_spend' = r.daily_spend
    /\ current_day' = r.current_day
    /\ today_log' = rolled_log
    /\ UNCHANGED <<max_daily, max_per_request, total_spend, purchase_count, purchases>>

\* a record_purchase that drops a purchase which goes over the daily limit
record_purchase_refuses_over_limit(credits, seller_url, query) ==
    LET r == reset_if_new_day
        over == max_daily > 0 /\ r.daily_spend + credits > max_daily
    IN
    /\ daily_spend' = IF over THEN r.daily_spend ELSE r.daily_spend + credits
    /\ current_day' = r.current_day
    /\ total_spend' = IF over THEN total_spend ELSE total_spend + credits
    /\ purchase_count' = IF over THEN purchase_count ELSE purchase_count + 1
    /\ purchases' = IF over THEN purchases
                     ELSE Append(purchases,
                                 [credits |-> credits, seller |-> seller_url,
                                  query |-> Min(query, QueryCut), timestamp |-> today])
    /\ today_log' = Append(rolled_log, credits)
    /\ UNCHANGED <<max_daily, max_per_request>>

\* Budget.record_purchase(credits, seller_url, query), under the lock
record_purchase(credits, seller_url, query) ==
    LET r == reset_if_new_day IN
    /\ daily_spend' = r.daily_spend + credits
    /\ current_day' = r.current_day
    /\ total_spend' = total_spend + credits
    /\ purchase_count' = purchase_count + 1
    /\ purchases' = Append(purchases,
                           [credits |-> credits, seller |-> seller_url,
                            query |-> Min(query, QueryCut), timestamp |-> today])
    /\ today_log' = Append(rolled_log, credits)
    /\ UNCHANGED <<max_daily, max_per_request>>

\* the last n elements of a list: s[-n:]
LastN(s, n) == IF Len(s) <= n THEN s ELSE SubSeq(s, Len(s) - n + 1, Len(s))

RecentKept == 5        \* self._purchases[-5:]

\* the snapshot get_status returns after the rollover ("unlimited" is -1)
get_status_result(spend) ==
    [daily_limit |-> IF max_daily # 0 THEN max_daily ELSE -1,
     daily_spent |-> spend,
     daily_remaining |-> IF max_daily > 0 THEN max_daily - spend ELSE -1,
     per_request_limit |-> IF max_per_request # 0 THEN max_per_request ELSE -1,
     total_spent |-> total_spend,
     total_purchases |-> purchase_count,
     recent_purchases |-> LastN(purchases, RecentKept)]

\* Budget.get_status(), under the lock
get_status ==
    LET r == reset_if_new_day IN
    /\ daily_spend' = r.daily_spend
    /\ current_day' = r.current_day
    /\ today_log' = rolled_log
    /\ UNCHANGED <<max_daily, max_per_request, total_spend, purchase_count, purchases>>

\* Budget(max_daily, max_per_request)
BudgetInit(md, mpr) ==
    /\ max_daily = md
    /\ max_per_request = mpr
    /\ daily_spend = 0
    /\ total_spend = 0
    /\ purchase_count = 0
    /\ current_day = today
    /\ purchases = <<>>
    /\ today_log = <<>>
    /\ ret = [op |-> "none"]

\* the date advances (midnight UTC)
Tick ==
    /\ program \in {"budget", "buyer", "threads", "client"}
    /\ today < MaxDay
    /\ today' = today + 1
    /\ UNCHANGED <<program, toolSide, budgetVars, ret, buyerVars, threadVars, sellerSide>>

----------------------------------------------------------------------------
(* program "budget": one thread calling the Budget's methods *)

CanSpend ==
    /\ program = "budget"
    /\ \E credits \in 0..MaxCredits :
          /\ can_spend(credits)
          /\ ret' = [op |-> "can_spend", credits |-> credits,
                     result |-> can_spend_result(credits, reset_if_new_day.daily_spend)]
    /\ UNCHANGED <<program, toolSide, today, buyerVars, threadVars, sellerSide>>

RecordPurchase ==
    /\ program = "budget"
    /\ purchase_count < MaxPurchases
    /\ \E credits \in 1..MaxCredits, s \in Sellers, q \in QueryLens :
          /\ record_purchase(credits, s, q)
          /\ ret' = [op |-> "record_purchase", credits |-> credits, query |-> q]
    /\ UNCHANGED <<program, toolSide, today, buyerVars, threadVars, sellerSide>>

GetStatus ==
    /\ program = "budget"
    /\ get_status
    /\ ret' = [op |-> "get_status",
               result |-> get_status_result(reset_if_new_day.daily_spend)]
    /\ UNCHANGED <<program, toolSide, today, buyerVars, threadVars, sellerSide>>

BuyerIdle == [b \in Buyers |-> "idle"]
NoRequest == [tool |-> "none"]

\* the state of a program that is not the one running
ThreadsUnused ==
    /\ lock = 0
    /\ thr = <<>>
    /\ calls = <<>>

BuyerSideUnused ==
    /\ today = 0
    /\ BudgetInit(0, 0)
    /\ bpc = BuyerIdle
    /\ breq = [b \in Buyers |-> NoRequest]
    /\ ThreadsUnused

A2AUnused ==
    /\ credit_map = <<>>
    /\ messages = <<>>
    /\ tpc = <<>>
    /\ tloc = <<>>
    /\ events = <<>>
    /\ cancels = 0

NoCall == [fn |-> "none"]

FnUnused ==
    /\ ctx = <<>>
    /\ call = NoCall

HttpUnused ==
    /\ hpc = "idle"
    /\ hreq = <<>>
    /\ responses = <<>>
    /\ analytics = [total_requests |-> 0, total_credits |-> 0]

SellerSideUnused == A2AUnused /\ FnUnused /\ HttpUnused

\* no thread calls the registry, no caller holds a value, no script runs
ToolSideUnused ==
    /\ sellers = <<>>
    /\ rlock = 0
    /\ rthr = <<>>
    /\ reg_log = <<>>
    /\ held = [op |-> "none", changes |-> 0, refs |-> <<>>, list |-> <<>>]
    /\ script = [pc |-> "none"]
    /\ extract = [events |-> <<>>]
    /\ registration = [pc |-> "none"]

InitBudget ==
    /\ program = "budget"
    /\ ToolSideUnused
    /\ today = 0
    /\ \E md \in DailyLimits, mpr \in PerRequestLimits : BudgetInit(md, mpr)
    /\ bpc = BuyerIdle
    /\ breq = [b \in Buyers |-> NoRequest]
    /\ ThreadsUnused
    /\ SellerSideUnused

NextBudget == Tick \/ CanSpend \/ RecordPurchase \/ GetStatus

SpecBudget == InitBudget /\ [][NextBudget]_vars

----------------------------------------------------------------------------
(* program "buyer": the purchase tools, one call per thread at a time,     *)
(* all on the module's one Budget.  A tool call is cut where it takes the  *)
(* Budget's lock or waits for the network.                                 *)

InFlight == Cardinality({b \in Buyers : bpc[b] \in {"check", "admitted", "sent"}})

\* the locals of a tool call that has just started: the amount it will ask
\* can_spend for, the agent-card fetches it has made, the payment tokens it
\* has asked for, the paid requests it has sent, the record_purchase calls it
\* has made, and the dict it returns
NewRequest(tool, min_credits, fetches) ==
    [tool |-> tool, min_credits |-> min_credits, fetches |-> fetches, tokens |-> 0,
     sent |-> 0, recorded |-> 0, status |-> "none", credits_used |-> 0]

\* the tool call returns {status, credits_used}; its locals are gone
Return(req, status, credits_used) ==
    [req EXCEPT !.status = status, !.credits_used = credits_used, !.min_credits = 0]

\* purchase_data, up to its budget pre-check: url = seller_url or SELLER_URL
BeginPurchaseData(b) ==
    /\ program = "buyer"
    /\ bpc[b] \in {"idle", "returned"}
    /\ purchase_count + InFlight < MaxPurchases
    /\ breq' = [breq EXCEPT ![b] = NewRequest("data", 1, 0)]
    /\ bpc' = [bpc EXCEPT ![b] = "check"]
    /\ UNCHANGED <<program, toolSide, today, budgetVars, ret, threadVars, sellerSide>>

\* purchase_a2a, up to its budget pre-check: the url, then the payment info
\* from the registry or, when the seller is not registered, from a fetch
\* of its agent card
BeginPurchaseA2A(b) ==
    /\ program = "buyer"
    /\ bpc[b] \in {"idle", "returned"}
    /\ purchase_count + InFlight < MaxPurchases
    /\ \/ \* no url given and no seller registered
          /\ breq' = [breq EXCEPT ![b] = Return(NewRequest("a2a", 0, 0), "error", 0)]
          /\ bpc' = [bpc EXCEPT ![b] = "returned"]
       \/ \* cached payment info
          \E min_credits \in 0..MaxCredits :
             /\ breq' = [breq EXCEPT ![b] = NewRequest("a2a", min_credits, 0)]
             /\ bpc' = [bpc EXCEPT ![b] = "check"]
       \/ \* full discovery, which fails, or finds no plan id
          /\ breq' = [breq EXCEPT ![b] = Return(NewRequest("a2a", 0, 1), "error", 0)]
          /\ bpc' = [bpc EXCEPT ![b] = "returned"]
       \/ \* full discovery, which succeeds
          \E min_credits \in 0..MaxCredits :
             /\ breq' = [breq EXCEPT ![b] = NewRequest("a2a", min_credits, 1)]
             /\ bpc' = [bpc EXCEPT ![b] = "check"]
    /\ UNCHANGED <<program, toolSide, today, budgetVars, ret, threadVars, sellerSide>>

\* a pre-check whose denial does not stop the purchase
BudgetPreCheck_ignores_denial(b) ==
    /\ program = "buyer"
    /\ bpc[b] = "check"
    /\ can_spend(breq[b].min_credits)
    /\ IF can_spend_result(breq[b].min_credits, reset_if_new_day.daily_spend).allowed
       THEN /\ bpc' = [bpc EXCEPT ![b] = "admitted"]
            /\ UNCHANGED breq
       ELSE /\ bpc' = [bpc EXCEPT ![b] = "admitted"]
            /\ breq' = [breq EXCEPT ![b].status = "budget_exceeded"]
    /\ UNCHANGED <<program, toolSide, today, ret, threadVars, sellerSide>>

\* the budget pre-check of purchase_data / purchase_a2a
BudgetPreCheck(b) ==
    /\ program = "buyer"
    /\ bpc[b] = "check"
    /\ can_spend(breq[b].min_credits)
    /\ IF can_spend_result(breq[b].min_credits, reset_if_new_day.daily_spend).allowed
       THEN /\ bpc' = [bpc EXCEPT ![b] = "admitted"]
            /\ UNCHANGED breq
       ELSE /\ bpc' = [bpc EXCEPT ![b] = "returned"]
            /\ breq' = [breq EXCEPT ![b] = Return(@, "budget_exceeded", 0)]
    /\ UNCHANGED <<program, toolSide, today, ret, threadVars, sellerSide>>

\* purchase_data_impl / purchase_a2a_impl, up to the paid request: the
\* token is minted and the request sent, or minting fails
SendPaidRequest(b) ==
    /\ program = "buyer"
    /\ bpc[b] = "admitted"
    /\ \/ /\ breq' = [breq EXCEPT ![b].tokens = @ + 1, ![b].sent = @ + 1]
          /\ bpc' = [bpc EXCEPT ![b] = "sent"]
       \/ /\ breq' = [breq EXCEPT ![b] = Return([@ EXCEPT !.tokens = @ + 1], "error", 0)]
          /\ bpc' = [bpc EXCEPT ![b] = "returned"]
    /\ UNCHANGED <<program, toolSide, today, budgetVars, ret, threadVars, sellerSide>>

\* results in which a failed request still reports the credits it used
ImplResults_failure_reports_credits(tool) ==
    {[status |-> st, credits_used |-> c] : st \in {"success", "error"}, c \in 0..MaxCredits}

\* what the paid request can end with: purchase_data_impl maps 402 to
\* payment_required, another failure to error, and reads credits_used from
\* a 200 response; purchase_a2a_impl knows success and error only
ImplResults(tool) ==
    {[status |-> "success", credits_used |-> c] : c \in 0..MaxCredits}
    \cup {[status |-> "error", credits_used |-> 0]}
    \cup IF tool = "data" THEN {[status |-> "payment_required", credits_used |-> 0]}
         ELSE {}

\* the rest of the tool: the impl's result, then record_purchase on success
ReceiveResult(b) ==
    /\ program = "buyer"
    /\ bpc[b] = "sent"
    /\ \E result \in ImplResults(breq[b].tool) :
          IF result.status = "success" /\ result.credits_used > 0
          THEN /\ \E s \in Sellers, q \in BuyerQueryLens :
                     record_purchase(result.credits_used, s, q)
               /\ breq' = [breq EXCEPT ![b] =
                              Return([@ EXCEPT !.recorded = @ + 1],
                                     result.status, result.credits_used)]
          ELSE /\ UNCHANGED budgetVars
               /\ breq' = [breq EXCEPT ![b] =
                              Return(@, result.status, result.credits_used)]
    /\ bpc' = [bpc EXCEPT ![b] = "returned"]
    /\ UNCHANGED <<program, toolSide, today, ret, threadVars, sellerSide>>

InitBuyer ==
    /\ program = "buyer"
    /\ ToolSideUnused
    /\ today = 0
    /\ \E md \in DailyLimits, mpr \in PerRequestLimits : BudgetInit(md, mpr)
    /\ bpc = BuyerIdle
    /\ breq = [b \in Buyers |-> NoRequest]
    /\ ThreadsUnused
    /\ SellerSideUnused

NextBuyer ==
    \/ Tick
    \/ \E b \in Buyers :
          \/ BeginPurchaseData(b)
          \/ BeginPurchaseA2A(b)
          \/ BudgetPreCheck(b)
          \/ SendPaidRequest(b)
          \/ ReceiveResult(b)

SpecBuyer == InitBuyer /\ [][NextBuyer]_vars

----------------------------------------------------------------------------
(* program "threads": several threads call can_spend, record_purchase and  *)
(* get_status on one Budget.  A method is cut at its statements: taking    *)
(* the lock, _reset_if_new_day, every read and every write of a field      *)
(* (x += c is a read and a write), leaving the with block.                 *)

NumThreads == 2        \* threads calling the Budget

Threads == 1..NumThreads

IdleThread == [pc |-> "idle", op |-> "none", credits |-> 0, tmp |-> 0, snap |-> <<>>]

RecordsStarted == Cardinality({th \in Threads : thr[th].op = "record_purchase"})

\* the first statement of a method's body after _reset_if_new_day
FirstStatement(op) ==
    CASE op = "can_spend" -> "check"
      [] op = "record_purchase" -> "load_daily"
      [] op = "get_status" -> "read_remaining"

\* thread th moves to statement pc, its other locals as given
Goto(th, pc) == thr' = [thr EXCEPT ![th].pc = pc]

\* a thread calls a method of the Budget
ThreadCall(th) ==
    /\ program = "threads"
    /\ thr[th].pc = "idle"
    /\ \E op \in {"can_spend", "record_purchase", "get_status"}, credits \in 0..MaxCredits :
          /\ op = "record_purchase" => credits > 0 /\ Len(calls) + RecordsStarted < MaxPurchases
          /\ op = "get_status" => credits = 0
          /\ thr' = [thr EXCEPT ![th] = [IdleThread EXCEPT !.pc = "lock", !.op = op,
                                                           !.credits = credits]]
    /\ UNCHANGED <<program, toolSide, today, budgetVars, ret, buyerVars, lock, calls, sellerSide>>

\* a thread that enters the body without the lock being free
Acquire_without_waiting(th) ==
    /\ program = "threads"
    /\ thr[th].pc = "lock"
    /\ lock' = th
    /\ Goto(th, "reset")
    /\ UNCHANGED <<program, toolSide, today, budgetVars, ret, buyerVars, calls, sellerSide>>

\* with self._lock: the thread waits until the lock is free and takes it
Acquire(th) ==
    /\ program = "threads"
    /\ thr[th].pc = "lock"
    /\ lock = 0
    /\ lock' = th
    /\ Goto(th, "reset")
    /\ UNCHANGED <<program, toolSide, today, budgetVars, ret, buyerVars, calls, sellerSide>>

\* self._reset_if_new_day()
ResetIfNewDay(th) ==
    /\ program = "threads"
    /\ thr[th].pc = "reset"
    /\ daily_spend' = reset_if_new_day.daily_spend
    /\ current_day' = reset_if_new_day.current_day
    /\ today_log' = rolled_log
    /\ Goto(th, FirstStatement(thr[th].op))
    /\ UNCHANGED <<program, toolSide, today, max_daily, max_per_request, total_spend, purchase_count,
                   purchases, ret, buyerVars, lock, calls, sellerSide>>

\* can_spend: the two checks and the return value
CanSpendBody(th) ==
    /\ program = "threads"
    /\ thr[th].pc = "check"
    /\ thr' = [thr EXCEPT ![th].pc = "unlock",
                          ![th].snap = can_spend_result(thr[th].credits, daily_spend)]
    /\ UNCHANGED <<program, toolSide, today, budgetVars, ret, buyerVars, lock, calls, sellerSide>>

\* record_purchase: the read of a field by x += credits
RecordLoad(th) ==
    /\ program = "threads"
    /\ thr[th].pc \in {"load_daily", "load_total", "load_count"}
    /\ thr' = [thr EXCEPT
                 ![th].tmp = CASE thr[th].pc = "load_daily" -> daily_spend
                               [] thr[th].pc = "load_total" -> total_spend
                               [] thr[th].pc = "load_count" -> purchase_count,
                 ![th].pc = CASE thr[th].pc = "load_daily" -> "store_daily"
                              [] thr[th].pc = "load_total" -> "store_total"
                              [] thr[th].pc = "load_count" -> "store_count"]
    /\ UNCHANGED <<program, toolSide, today, budgetVars, ret, buyerVars, lock, calls, sellerSide>>

\* record_purchase: self._daily_spend += credits, the write
RecordStoreDaily(th) ==
    /\ program = "threads"
    /\ thr[th].pc = "store_daily"
    /\ daily_spend' = thr[th].tmp + thr[th].credits
    /\ today_log' = Append(today_log, thr[th].credits)
    /\ Goto(th, "load_total")
    /\ UNCHANGED <<program, toolSide, today, max_daily, max_per_request, total_spend, purchase_count,
                   current_day, purchases, ret, buyerVars, lock, calls, sellerSide>>

\* record_purchase: self._total_spend += credits, the write
RecordStoreTotal(th) ==
    /\ program = "threads"
    /\ thr[th].pc = "store_total"
    /\ total_spend' = thr[th].tmp + thr[th].credits
    /\ Goto(th, "load_count")
    /\ UNCHANGED <<program, toolSide, today, max_daily, max_per_request, daily_spend, purchase_count,
                   current_day, purchases, today_log, ret, buyerVars, lock, calls, sellerSide>>

\* record_purchase: self._purchase_count += 1, the write
RecordStoreCount(th) ==
    /\ program = "threads"
    /\ thr[th].pc = "store_count"
    /\ purchase_count' = thr[th].tmp + 1
    /\ Goto(th, "append")
    /\ UNCHANGED <<program, toolSide, today, max_daily, max_per_request, daily_spend, total_spend,
                   current_day, purchases, today_log, ret, buyerVars, lock, calls, sellerSide>>

\* record_purchase: self._purchases.append({...})
RecordAppend(th) ==
    /\ program = "threads"
    /\ thr[th].pc = "append"
    /\ \E s \in Sellers, q \in BuyerQueryLens :
          purchases' = Append(purchases,
                              [credits |-> thr[th].credits, seller |-> s,
                               query |-> Min(q, QueryCut), timestamp |-> today])
    /\ Goto(th, "unlock")
    /\ UNCHANGED <<program, toolSide, today, max_daily, max_per_request, daily_spend, total_spend,
                   purchase_count, current_day, today_log, ret, buyerVars, lock, calls,
                   sellerSide>>

\* get_status: the reads that build the snapshot, in the order of the code
StatusRead(th) ==
    /\ program = "threads"
    /\ thr[th].pc \in {"read_remaining", "read_spent", "read_total", "read_count",
                       "read_recent"}
    /\ thr' = [thr EXCEPT
                 ![th].snap =
                     CASE thr[th].pc = "read_remaining" ->
                              [daily_remaining |->
                                   IF max_daily > 0 THEN max_daily - daily_spend ELSE -1,
                               daily_limit |-> IF max_daily # 0 THEN max_daily ELSE -1,
                               per_request_limit |->
                                   IF max_per_request # 0 THEN max_per_request ELSE -1]
                       [] thr[th].pc = "read_spent" -> @ @@ [daily_spent |-> daily_spend]
                       [] thr[th].pc = "read_total" -> @ @@ [total_spent |-> total_spend]
                       [] thr[th].pc = "read_count" -> @ @@ [total_purchases |-> purchase_count]
                       [] thr[th].pc = "read_recent" ->
                              @ @@ [recent_purchases |-> LastN(purchases, RecentKept)],
                 ![th].pc =
                     CASE thr[th].pc = "read_remaining" -> "read_spent"
                       [] thr[th].pc = "read_spent" -> "read_total"
                       [] thr[th].pc = "read_total" -> "read_count"
                       [] thr[th].pc = "read_count" -> "read_recent"
                       [] thr[th].pc = "read_recent" -> "unlock"]
    /\ UNCHANGED <<program, toolSide, today, budgetVars, ret, buyerVars, lock, calls, sellerSide>>

\* the with block is left: the lock is released and the method returns
Release(th) ==
    /\ program = "threads"
    /\ thr[th].pc = "unlock"
    /\ lock' = 0
    /\ calls' = IF thr[th].op = "record_purchase"
                THEN Append(calls, thr[th].credits) ELSE calls
    /\ thr' = [thr EXCEPT ![th] = IdleThread]
    /\ UNCHANGED <<program, toolSide, today, budgetVars, ret, buyerVars, sellerSide>>

InitThreads ==
    /\ program = "threads"
    /\ ToolSideUnused
    /\ today = 0
    /\ \E md \in DailyLimits, mpr \in PerRequestLimits : BudgetInit(md, mpr)
    /\ bpc = BuyerIdle
    /\ breq = [b \in Buyers |-> NoRequest]
    /\ lock = 0
    /\ thr = [th \in Threads |-> IdleThread]
    /\ calls = <<>>
    /\ SellerSideUnused

ThreadStep(th) ==
    \/ ThreadCall(th)
    \/ Acquire(th)
    \/ ResetIfNewDay(th)
    \/ CanSpendBody(th)
    \/ RecordLoad(th)
    \/ RecordStoreDaily(th)
    \/ RecordStoreTotal(th)
    \/ RecordStoreCount(th)
    \/ RecordAppend(th)
    \/ StatusRead(th)
    \/ Release(th)

NextThreads == Tick \/ \E th \in Threads : ThreadStep(th)

SpecThreads == InitThreads /\ [][NextThreads]_vars

----------------------------------------------------------------------------
(* program "history": one thread recording a long run of purchases on a    *)
(* Budget without limits and asking for its status, with few different     *)
(* inputs so that the run can be longer than the status's recent list.     *)

MaxHistory == 6        \* record_purchase calls of a long run

HistoryCredits == {1, 2}      \* the amounts recorded in a long run

HistoryRecordPurchase ==
    /\ program = "history"
    /\ Len(calls) < MaxHistory
    /\ \E credits \in HistoryCredits, s \in Sellers, q \in BuyerQueryLens :
          /\ record_purchase(credits, s, q)
          /\ calls' = Append(calls, credits)
          /\ ret' = [op |-> "record_purchase", credits |-> credits, query |-> q]
    /\ UNCHANGED <<program, toolSide, today, buyerVars, lock, thr, sellerSide>>

HistoryGetStatus ==
    /\ program = "history"
    /\ get_status
    /\ ret' = [op |-> "get_status",
               result |-> get_status_result(reset_if_new_day.daily_spend)]
    /\ UNCHANGED <<program, toolSide, today, buyerVars, threadVars, sellerSide>>

InitHistory ==
    /\ program = "history"
    /\ ToolSideUnused
    /\ today = 0
    /\ BudgetInit(0, 0)
    /\ bpc = BuyerIdle
    /\ breq = [b \in Buyers |-> NoRequest]
    /\ ThreadsUnused
    /\ SellerSideUnused

NextHistory == HistoryRecordPurchase \/ HistoryGetStatus

SpecHistory == InitHistory /\ [][NextHistory]_vars

----------------------------------------------------------------------------
(* program "a2a": the seller's A2A server.  One StrandsA2AExecutor with    *)
(* one Strands agent (main) serves every task; OBSERVABILITY_ENABLED is    *)
(* false, its default, so no per-request agent is made.  An execute() run  *)
(* is cut at its awaits; the agent runs in a worker thread                 *)
(* (asyncio.to_thread) and appends to agent.messages as it goes.           *)

Tasks == 1..NumTasks

\* ALL_TOOLS: the tool functions and their credits
AllTools == [search_data |-> 1, summarize_data |-> 5, research_data |-> 10]

\* resolve_tools(tool_names): the credit map of the selected tools
\* (--tools; none given selects all)
ToolSelections ==
    {{"search_data", "summarize_data", "research_data"},
     {"search_data"}}

resolve_tools(selection) == [n \in selection |-> AllTools[n]]

\* the tool names an agent message can carry: the tools, and a name with no
\* configured price
ToolNames == {"search_data", "summarize_data", "lookup"}

Responses == {"report", "summary"}     \* str(result)

\* content blocks and messages of agent.messages
TextBlock == [type |-> "text", name |-> ""]
ToolUse(n) == [type |-> "tool_use", name |-> n]
ToolResultBlock == [type |-> "tool_result", name |-> ""]

\* a lookup that gives 0 for a tool without configured price
credit_of_unpriced_is_free(name) == IF name \in DOMAIN credit_map THEN credit_map[name] ELSE 0

\* self._credit_map.get(name, 1)
credit_of(name) == IF name \in DOMAIN credit_map THEN credit_map[name] ELSE 1

\* the inner loop of _calculate_credits: the credits of one message's blocks
RECURSIVE block_credits(_)
block_credits(content) ==
    IF content = <<>> THEN 0
    ELSE (IF Head(content).type = "tool_use" THEN credit_of(Head(content).name) ELSE 0)
         + block_credits(Tail(content))

\* the outer loop of _calculate_credits
RECURSIVE total_credits(_)
total_credits(msgs) ==
    IF msgs = <<>> THEN 0
    ELSE block_credits(Head(msgs)) + total_credits(Tail(msgs))

\* _calculate_credits(messages): total or 1
calculate_credits(msgs) ==
    LET total == total_credits(msgs) IN IF total = 0 THEN 1 ELSE total

\* the whole history, the offset forgotten: agent.messages
MessagesFrom_whole_history(offset) == messages

\* agent.messages[msg_offset:]
MessagesFrom(offset) == SubSeq(messages, offset + 1, Len(messages))

\* Task(status=TaskStatus(state=submitted), history=[])
submitted_task ==
    [kind |-> "task", state |-> "submitted", text |-> "", creditsUsed |-> <<>>,
     final |-> FALSE]

\* _make_status_event: creditsUsed is in the metadata only when credits_used
\* is given (<<>> models its absence)
make_status_event(state, text, credits_used, final) ==
    [kind |-> "status-update", state |-> state, text |-> text,
     creditsUsed |-> credits_used, final |-> final]

\* the locals of an execute() run, with its history: whether its request had
\* a current task, the agent invocations it made, the tools the agent invoked
\* for it, whether the invocation raised
NewTaskLocals ==
    [msg_offset |-> 0, response_text |-> "", invoked |-> 0, tool_uses |-> <<>>,
     raised |-> FALSE, current_task |-> FALSE]

Enqueue(t, e) == events' = [events EXCEPT ![t] = Append(@, e)]

\* execute(), up to the first await: the initial Task is published when the
\* request has no current task
ExecutePublishTask(t) ==
    /\ program = "a2a"
    /\ tpc[t] = "new"
    /\ \E has_current_task \in BOOLEAN :
          /\ IF has_current_task THEN UNCHANGED events ELSE Enqueue(t, submitted_task)
          /\ tloc' = [tloc EXCEPT ![t].current_task = has_current_task]
    /\ tpc' = [tpc EXCEPT ![t] = "accepted"]
    /\ UNCHANGED <<program, toolSide, buyerSide, fnVars, httpVars, credit_map, messages, cancels>>

\* execute(): the working status
ExecutePublishWorking(t) ==
    /\ program = "a2a"
    /\ tpc[t] = "accepted"
    /\ Enqueue(t, make_status_event("working", "Processing request...", <<>>, FALSE))
    /\ tpc' = [tpc EXCEPT ![t] = "working"]
    /\ UNCHANGED <<program, toolSide, buyerSide, fnVars, httpVars, credit_map, messages, tloc, cancels>>

\* an execute() that starts the agent before it publishes the working status
ExecuteInvoke_before_working(t) ==
    /\ program = "a2a"
    /\ tpc[t] = "accepted"
    /\ tloc' = [tloc EXCEPT ![t].msg_offset = Len(messages), ![t].invoked = @ + 1]
    /\ tpc' = [tpc EXCEPT ![t] = "invoked"]
    /\ UNCHANGED <<program, toolSide, buyerSide, fnVars, httpVars, credit_map, messages, events, cancels>>

\* execute(): msg_offset = len(agent.messages), then the agent is started in
\* a worker thread
ExecuteInvoke(t) ==
    /\ program = "a2a"
    /\ tpc[t] = "working"
    /\ tloc' = [tloc EXCEPT ![t].msg_offset = Len(messages), ![t].invoked = @ + 1]
    /\ tpc' = [tpc EXCEPT ![t] = "invoked"]
    /\ UNCHANGED <<program, toolSide, buyerSide, fnVars, httpVars, credit_map, messages, events, cancels>>

\* the agent, in its thread: the user's text becomes a message
AgentPrompt(t) ==
    /\ program = "a2a"
    /\ tpc[t] = "invoked"
    /\ messages' = Append(messages, <<TextBlock>>)
    /\ tpc' = [tpc EXCEPT ![t] = "running"]
    /\ UNCHANGED <<program, toolSide, buyerSide, fnVars, httpVars, credit_map, tloc, events, cancels>>

\* the agent, in its thread: the model asks for a tool; the assistant
\* message with the tool_use block and the message with the tool's result
\* are appended
AgentToolUse(t) ==
    /\ program = "a2a"
    /\ tpc[t] = "running"
    /\ Len(tloc[t].tool_uses) < MaxToolUses
    /\ \E n \in ToolNames :
          /\ messages' = messages \o << <<TextBlock, ToolUse(n)>>, <<ToolResultBlock>> >>
          /\ tloc' = [tloc EXCEPT ![t].tool_uses = Append(@, n)]
    /\ UNCHANGED <<program, toolSide, buyerSide, fnVars, httpVars, credit_map, tpc, events, cancels>>

\* the agent, in its thread: the final answer; the invocation returns
AgentReturn(t) ==
    /\ program = "a2a"
    /\ tpc[t] = "running"
    /\ \E text \in Responses :
          tloc' = [tloc EXCEPT ![t].response_text = text]
    /\ messages' = Append(messages, <<TextBlock>>)
    /\ tpc' = [tpc EXCEPT ![t] = "returned"]
    /\ UNCHANGED <<program, toolSide, buyerSide, fnVars, httpVars, credit_map, events, cancels>>

\* the agent invocation raises (at its start, or after some tools ran)
AgentRaise(t) ==
    /\ program = "a2a"
    /\ tpc[t] \in {"invoked", "running"}
    /\ tpc' = [tpc EXCEPT ![t] = "raised"]
    /\ tloc' = [tloc EXCEPT ![t].raised = TRUE]
    /\ UNCHANGED <<program, toolSide, buyerSide, fnVars, httpVars, credit_map, messages, events, cancels>>

\* an except branch that bills the tools that ran before the exception
ExecuteFailed_bills_partial_work(t) ==
    /\ program = "a2a"
    /\ tpc[t] = "raised"
    /\ Enqueue(t, make_status_event("failed", "Error",
                   <<calculate_credits(SubSeq(messages, tloc[t].msg_offset + 1, Len(messages)))>>,
                   TRUE))
    /\ tpc' = [tpc EXCEPT ![t] = "done"]
    /\ UNCHANGED <<program, toolSide, buyerSide, fnVars, httpVars, credit_map, messages, tloc, cancels>>

\* execute(), except branch: the failed status with credits_used=0
ExecuteFailed(t) ==
    /\ program = "a2a"
    /\ tpc[t] = "raised"
    /\ Enqueue(t, make_status_event("failed", "Error", <<0>>, TRUE))
    /\ tpc' = [tpc EXCEPT ![t] = "done"]
    /\ UNCHANGED <<program, toolSide, buyerSide, fnVars, httpVars, credit_map, messages, tloc, cancels>>

\* the credits execute() reports: _calculate_credits(agent.messages[msg_offset:])
credits_used(t) == calculate_credits(MessagesFrom(tloc[t].msg_offset))

\* execute(), after the invocation returned: the credits, then the
\* completed status
ExecuteCompleted(t) ==
    /\ program = "a2a"
    /\ tpc[t] = "returned"
    /\ Enqueue(t, make_status_event("completed", tloc[t].response_text,
                                    <<credits_used(t)>>, TRUE))
    /\ tpc' = [tpc EXCEPT ![t] = "done"]
    /\ UNCHANGED <<program, toolSide, buyerSide, fnVars, httpVars, credit_map, messages, tloc, cancels>>

\* cancel(): the canceled status with credits_used=0, whatever the task is doing
Cancel(t) ==
    /\ program = "a2a"
    /\ cancels < MaxCancels
    /\ Enqueue(t, make_status_event("canceled", "Task cancelled.", <<0>>, TRUE))
    /\ cancels' = cancels + 1
    /\ UNCHANGED <<program, toolSide, buyerSide, fnVars, httpVars, credit_map, messages, tpc, tloc>>

InitA2A ==
    /\ program = "a2a"
    /\ ToolSideUnused
    /\ BuyerSideUnused
    /\ FnUnused
    /\ HttpUnused
    /\ \E selection \in ToolSelections : credit_map = resolve_tools(selection)
    /\ messages = <<>>
    /\ tpc = [t \in Tasks |-> "new"]
    /\ tloc = [t \in Tasks |-> NewTaskLocals]
    /\ events = [t \in Tasks |-> <<>>]
    /\ cancels = 0

ExecuteStep(t) ==
    \/ ExecutePublishTask(t)
    \/ ExecutePublishWorking(t)
    \/ ExecuteInvoke(t)
    \/ AgentPrompt(t)
    \/ AgentToolUse(t)
    \/ AgentReturn(t)
    \/ AgentRaise(t)
    \/ ExecuteFailed(t)
    \/ ExecuteCompleted(t)

NextA2A == \E t \in Tasks : ExecuteStep(t) \/ Cancel(t)

SpecA2A == InitA2A /\ [][NextA2A]_vars

\* tasks run one after another: a task's execute() starts when no other is running
Running(t) == tpc[t] \notin {"new", "done"}

NextA2ASeq ==
    \E t \in Tasks :
       \/ (\A u \in Tasks \ {t} : ~Running(u)) /\ ExecuteStep(t)
       \/ Cancel(t)

SpecA2ASeq == InitA2A /\ [][NextA2ASeq]_vars

----------------------------------------------------------------------------
(* program "calc": _calculate_credits applied to a list of messages.  A    *)
(* message is modelled by its content list; a message that is no dict or   *)
(* has no content is the empty list.                                       *)

MaxMsgs == 2           \* messages of a list handed to _calculate_credits
MaxBlocks == 2         \* content blocks of one message

SeqsUpTo(S, n) == UNION {[1..k -> S] : k \in 0..n}

Blocks == {TextBlock} \cup {ToolUse(n) : n \in ToolNames}
Contents == SeqsUpTo(Blocks, MaxBlocks)
MessageLists == SeqsUpTo(Contents, MaxMsgs)

InitCalc ==
    /\ program = "calc"
    /\ ToolSideUnused
    /\ BuyerSideUnused
    /\ \E selection \in ToolSelections : credit_map = resolve_tools(selection)
    /\ messages \in MessageLists
    /\ tpc = <<>>
    /\ tloc = <<>>
    /\ events = <<>>
    /\ cancels = 0
    /\ FnUnused
    /\ HttpUnused

CalculateCredits ==
    /\ program = "calc"
    /\ call = NoCall
    /\ call' = [fn |-> "_calculate_credits", result |-> calculate_credits(messages)]
    /\ UNCHANGED <<program, toolSide, buyerSide, a2aVars, ctx, httpVars>>

NextCalc == CalculateCredits

SpecCalc == InitCalc /\ [][NextCalc]_vars

----------------------------------------------------------------------------
(* program "mcp": the dynamic credit functions of the MCP server, which    *)
(* the paywall calls after a tool ran, with ctx = {"args", "result"}.  The *)
(* output text is modelled by its length.                                  *)

MaxTextLen == 8000     \* len(text) ranges over 0..MaxTextLen

Depths == {"absent", "standard", "deep", "quick"}      \* args.get("depth")
ResultContents == {<<>>} \cup {<<[text |-> n]>> : n \in 0..MaxTextLen}
Ctxs == [depth : Depths, content : ResultContents]

\* len(content[0].get("text", "") if content else "")
text_len(c) == IF c.content = <<>> THEN 0 ELSE c.content[1].text

\* _summarize_credits(ctx)
summarize_credits(c) == Min(10, Max(2, 2 + text_len(c) \div 500))

\* a research price that is not capped
research_credits_uncapped(c) ==
    LET depth == IF c.depth = "absent" THEN "standard" ELSE c.depth
        base == IF depth = "deep" THEN 10 ELSE 5
    IN  base + text_len(c) \div 500

\* _research_credits(ctx)
research_credits(c) ==
    LET depth == IF c.depth = "absent" THEN "standard" ELSE c.depth
        base == IF depth = "deep" THEN 10 ELSE 5
        length_credits == text_len(c) \div 500
    IN  Min(20, base + length_credits)

InitMcp ==
    /\ program = "mcp"
    /\ ToolSideUnused
    /\ BuyerSideUnused
    /\ A2AUnused
    /\ HttpUnused
    /\ ctx \in Ctxs
    /\ call = NoCall

SummarizeCredits ==
    /\ program = "mcp"
    /\ call = NoCall
    /\ call' = [fn |-> "_summarize_credits", result |-> summarize_credits(ctx)]
    /\ UNCHANGED <<program, toolSide, buyerSide, a2aVars, ctx, httpVars>>

ResearchCredits ==
    /\ program = "mcp"
    /\ call = NoCall
    /\ call' = [fn |-> "_research_credits", result |-> research_credits(ctx)]
    /\ UNCHANGED <<program, toolSide, buyerSide, a2aVars, ctx, httpVars>>

NextMcp == SummarizeCredits \/ ResearchCredits

SpecMcp == InitMcp /\ [][NextMcp]_vars

----------------------------------------------------------------------------
(* program "http": the seller's HTTP endpoint POST /data.  The handler     *)
(* calls the one Strands agent synchronously (no await), so requests are   *)
(* handled one at a time.  Payment is done by @requires_payment inside the *)
(* tools, which leaves a payment-required error in agent.messages or a     *)
(* settlement in the invocation state.                                     *)

MaxRequests == 3       \* POST /data requests per run

\* @requires_payment(credits=...) of the tools of agent_core.py
ToolCredits == {1, 5, 10}

\* what one agent run leaves behind: whether a tool ran, whether a
\* payment-required error is found in the messages, the settlement stored in
\* the invocation state (none without a payment token)
AgentRuns(payment_token) ==
    {[tool_ran |-> FALSE, payment_required |-> pr, settlement |-> <<>>] : pr \in BOOLEAN}
    \cup (IF payment_token
          THEN {[tool_ran |-> TRUE, payment_required |-> pr, settlement |-> st] :
                    pr \in BOOLEAN, st \in {<<>>} \cup {<<c>> : c \in ToolCredits}}
          ELSE {})

\* analytics.record_request("request", credits)
record_request(credits) ==
    analytics' = [total_requests |-> analytics.total_requests + 1,
                  total_credits |-> analytics.total_credits + credits]

\* JSONResponse(...), with the request it answers: whether it carried the
\* payment-signature header, its agent invocations, whether a tool ran
Respond(status, credits) ==
    /\ responses' = Append(responses, [status |-> status, credits_used |-> credits,
                                       payment_token |-> hreq.payment_token,
                                       invoked |-> hreq.invoked,
                                       tool_ran |-> hreq.tool_ran])
    /\ hpc' = "idle"
    /\ hreq' = <<>>

\* data(): the request arrives, with or without a payment-signature header
DataReceive ==
    /\ program = "http"
    /\ hpc = "idle"
    /\ Len(responses) < MaxRequests
    /\ \E payment_token \in BOOLEAN :
          hreq' = [payment_token |-> payment_token, invoked |-> 0, tool_ran |-> FALSE,
                   payment_required |-> FALSE, settlement |-> <<>>]
    /\ hpc' = "received"
    /\ UNCHANGED <<program, toolSide, buyerSide, a2aVars, fnVars, responses, analytics>>

\* data(): result = agent(body.query, invocation_state=state)
DataInvoke ==
    /\ program = "http"
    /\ hpc = "received"
    /\ hreq' = [hreq EXCEPT !.invoked = @ + 1]
    /\ hpc' = "agent"
    /\ UNCHANGED <<program, toolSide, buyerSide, a2aVars, fnVars, responses, analytics>>

\* the agent returns
DataAgentReturn ==
    /\ program = "http"
    /\ hpc = "agent"
    /\ \E run \in AgentRuns(hreq.payment_token) :
          hreq' = [hreq EXCEPT !.tool_ran = run.tool_ran,
                               !.payment_required = run.payment_required,
                               !.settlement = run.settlement]
    /\ hpc' = "returned"
    /\ UNCHANGED <<program, toolSide, buyerSide, a2aVars, fnVars, responses, analytics>>

\* the agent raises
DataAgentRaise ==
    /\ program = "http"
    /\ hpc = "agent"
    /\ hpc' = "raised"
    /\ UNCHANGED <<program, toolSide, buyerSide, a2aVars, fnVars, hreq, responses, analytics>>

\* a handler that runs the agent again when nothing was settled
DataRespond_reruns_unsettled ==
    /\ program = "http"
    /\ hpc = "returned"
    /\ IF hreq.settlement = <<>> /\ hreq.invoked < 2
       THEN /\ hpc' = "received"
            /\ UNCHANGED <<hreq, responses, analytics>>
       ELSE /\ LET credits == IF hreq.settlement # <<>> THEN hreq.settlement[1] ELSE 0
               IN  /\ record_request(credits)
                   /\ Respond(200, <<credits>>)
    /\ UNCHANGED <<program, toolSide, buyerSide, a2aVars, fnVars>>

\* data(): 402 when payment was required and nothing was settled, else the
\* analytics record and 200 {response, credits_used}
DataRespond ==
    /\ program = "http"
    /\ hpc = "returned"
    /\ IF hreq.payment_required /\ hreq.settlement = <<>>
       THEN /\ Respond(402, <<>>)
            /\ UNCHANGED analytics
       ELSE /\ LET credits == IF hreq.settlement # <<>> THEN hreq.settlement[1] ELSE 0
               IN  /\ record_request(credits)
                   /\ Respond(200, <<credits>>)
    /\ UNCHANGED <<program, toolSide, buyerSide, a2aVars, fnVars>>

\* an except branch that counts the failed request in the analytics
DataError_counts_request ==
    /\ program = "http"
    /\ hpc = "raised"
    /\ record_request(0)
    /\ Respond(500, <<>>)
    /\ UNCHANGED <<program, toolSide, buyerSide, a2aVars, fnVars>>

\* data(), except branch: 500
DataError ==
    /\ program = "http"
    /\ hpc = "raised"
    /\ Respond(500, <<>>)
    /\ UNCHANGED <<program, toolSide, buyerSide, a2aVars, fnVars, analytics>>

InitHttp ==
    /\ program = "http"
    /\ ToolSideUnused
    /\ BuyerSideUnused
    /\ A2AUnused
    /\ FnUnused
    /\ HttpUnused

NextHttp ==
    \/ DataReceive
    \/ DataInvoke
    \/ DataAgentReturn
    \/ DataAgentRaise
    \/ DataRespond
    \/ DataError

SpecHttp == InitHttp /\ [][NextHttp]_vars

----------------------------------------------------------------------------
(* program "registry": client threads on the buyer's one SellerRegistry    *)
(* (the registration server, the web routes and the agent's tools), and    *)
(* purchase_a2a up to its budget pre-check.  A string that matters         *)
(* character by character is a sequence of characters; a dict is a record  *)
(* whose fields are the keys it holds.                                     *)

MaxRegisters == 3      \* register calls per run
NumClients == 2        \* threads calling the registry

Clients == 1..NumClients

RawUrls == {<<"a">>, <<"a", "/">>, <<"b", "/", "/">>}   \* agent_url arguments
None == [none |-> TRUE]                                 \* Python's None
EmptyDict == [empty |-> TRUE]                           \* {} : no key of interest
NVM_PLAN_ID == "plan-env"
NVM_AGENT_ID == "agent-env"

\* agent cards as served at /.well-known/agent.json: one with every field,
\* one with no name, description or skills, whose first payment extension
\* has a plan id only
AgentCards ==
    LET FullParams == [planId |-> "plan-1", agentId |-> "agent-1", credits |-> 2,
                       costDescription |-> "2 per call"]
        PlanOnlyParams == [planId |-> "plan-2"]
    IN
    { [name |-> "Alpha", description |-> "alpha data",
       skills |-> <<[name |-> "search", id |-> "s1"], [id |-> "s2"],
                    [description |-> "nameless"]>>,
       capabilities |-> [extensions |-> <<[uri |-> "urn:nevermined:payment", params |-> FullParams]>>]],
      [capabilities |-> [extensions |-> <<[uri |-> "urn:other"],
                                          [uri |-> "urn:nevermined:payment", params |-> PlanOnlyParams],
                                          [uri |-> "urn:nevermined:payment", params |-> FullParams]>>]] }

\* dict.get(key, default)
get(d, key, default) == IF key \in DOMAIN d THEN d[key] ELSE default

\* str.rstrip("/")
RECURSIVE rstrip(_)
rstrip(s) ==
    IF s = <<>> THEN s
    ELSE IF s[Len(s)] = "/" THEN rstrip(SubSeq(s, 1, Len(s) - 1))
    ELSE s

\* the for loop over the extensions: the params of the first payment
\* extension, {} when there is none
RECURSIVE payment_params(_)
payment_params(extensions) ==
    IF extensions = <<>> THEN EmptyDict
    ELSE IF "uri" \in DOMAIN Head(extensions) /\ Head(extensions).uri = "urn:nevermined:payment"
    THEN get(Head(extensions), "params", EmptyDict)
    ELSE payment_params(Tail(extensions))

\* register, up to the lock: the SellerInfo built from the agent card
seller_info(agent_url, agent_card) ==
    LET params == payment_params(get(get(agent_card, "capabilities", EmptyDict),
                                     "extensions", <<>>))
    IN  [url |-> rstrip(agent_url),
         name |-> get(agent_card, "name", "Unknown Agent"),
         description |-> get(agent_card, "description", ""),
         skills |-> get(agent_card, "skills", <<>>),
         plan_id |-> get(params, "planId", ""),
         agent_id |-> get(params, "agentId", ""),
         credits |-> get(params, "credits", 1),
         cost_description |-> get(params, "costDescription", "")]

\* the dict _sellers is the sequence of its (key, value) entries in
\* insertion order
dict_keys(d) == {d[i].key : i \in 1..Len(d)}

\* d.get(key)
dict_get(d, key) ==
    IF key \in dict_keys(d)
    THEN d[CHOOSE i \in 1..Len(d) : d[i].key = key].value
    ELSE None

\* a store that leaves an existing entry as it is
dict_set_keeps_old(d, key, value) ==
    IF key \in dict_keys(d) THEN d
    ELSE Append(d, [key |-> key, value |-> value])

\* a store that moves a replaced entry to the end
dict_set_moves_to_end(d, key, value) ==
    Append(SelectSeq(d, LAMBDA e : e.key # key), [key |-> key, value |-> value])

\* d[key] = value: a new key goes to the end, an existing key keeps its place
dict_set(d, key, value) ==
    IF key \in dict_keys(d)
    THEN [i \in 1..Len(d) |-> IF d[i].key = key THEN [key |-> key, value |-> value]
                                                ELSE d[i]]
    ELSE Append(d, [key |-> key, value |-> value])

\* get_payment_info, after the lock: None, or the three payment fields
payment_info(info) ==
    IF info = None THEN None
    ELSE [planId |-> info.plan_id, agentId |-> info.agent_id, credits |-> info.credits]

\* list_all, after the lock: one summary per SellerInfo of the copied list
summaries(list) ==
    LET skill_name(sk) == get(sk, "name", get(sk, "id", "unknown"))
        summary(s) ==
            [url |-> s.url, name |-> s.name, description |-> s.description,
             skills |-> [i \in 1..Len(s.skills) |-> skill_name(s.skills[i])],
             credits |-> s.credits, cost_description |-> s.cost_description]
    IN  [i \in 1..Len(list) |-> summary(list[i])]

\* a client thread: the tool it runs (purchase_a2a or none), the registry
\* method it is in, where, the method's arguments and locals, what the
\* method returned, and (history) how many register calls had stored when
\* the method's body ran
IdleClient ==
    [tool |-> "none", op |-> "none", pc |-> "idle", agent_url |-> <<>>,
     agent_card |-> EmptyDict, local |-> None, result |-> None, seen |-> 0,
     fetches |-> 0]

\* the thread is between calls
Ready(th) ==
    \/ rthr[th].pc \in {"idle", "purchased"}
    \/ rthr[th].pc = "returned" /\ rthr[th].tool = "none"

\* register(agent_url, agent_card), lines 42-73: the SellerInfo is built
RegisterCall(th) ==
    /\ program = "registry"
    /\ Ready(th)
    /\ Len(reg_log)
         + Cardinality({c \in Clients : rthr[c].op = "register" /\ rthr[c].pc = "lock"})
           < MaxRegisters
    /\ \E agent_url \in RawUrls, agent_card \in AgentCards :
          rthr' = [rthr EXCEPT ![th] =
                      [IdleClient EXCEPT !.op = "register", !.pc = "lock",
                                         !.agent_url = agent_url,
                                         !.agent_card = agent_card,
                                         !.local = seller_info(agent_url, agent_card)]]
    /\ UNCHANGED <<program, sellers, rlock, reg_log, scriptVars, buyerSide, sellerSide>>

\* get_payment_info(agent_url), list_all() or get_first_url() is called
ReadCall(th) ==
    /\ program = "registry"
    /\ Ready(th)
    /\ \/ \E agent_url \in RawUrls :
             rthr' = [rthr EXCEPT ![th] =
                         [IdleClient EXCEPT !.op = "get_payment_info", !.pc = "lock",
                                            !.agent_url = agent_url]]
       \/ \E op \in {"list_all", "get_first_url"} :
             rthr' = [rthr EXCEPT ![th] = [IdleClient EXCEPT !.op = op, !.pc = "lock"]]
    /\ UNCHANGED <<program, sellers, rlock, reg_log, scriptVars, buyerSide, sellerSide>>

\* register: with self._lock, once the lock is free: self._sellers[url] = info
RegisterStore(th) ==
    /\ program = "registry"
    /\ rthr[th].pc = "lock" /\ rthr[th].op = "register"
    /\ rlock = 0
    /\ rlock' = th
    /\ sellers' = dict_set(sellers, rthr[th].local.url, rthr[th].local)
    /\ reg_log' = Append(reg_log, [agent_url |-> rthr[th].agent_url,
                                   agent_card |-> rthr[th].agent_card])
    /\ rthr' = [rthr EXCEPT ![th].pc = "unlock", ![th].seen = Len(reg_log) + 1]
    /\ UNCHANGED <<program, scriptVars, buyerSide, sellerSide>>

\* get_payment_info: with self._lock: info = self._sellers.get(url)
GetPaymentInfoLookup(th) ==
    /\ program = "registry"
    /\ rthr[th].pc = "lock" /\ rthr[th].op = "get_payment_info"
    /\ rlock = 0
    /\ rlock' = th
    /\ rthr' = [rthr EXCEPT ![th].pc = "unlock", ![th].seen = Len(reg_log),
                            ![th].local = dict_get(sellers, rstrip(rthr[th].agent_url))]
    /\ UNCHANGED <<program, sellers, reg_log, scriptVars, buyerSide, sellerSide>>

\* list_all: with self._lock: sellers = list(self._sellers.values())
ListAllCopy(th) ==
    /\ program = "registry"
    /\ rthr[th].pc = "lock" /\ rthr[th].op = "list_all"
    /\ rlock = 0
    /\ rlock' = th
    /\ rthr' = [rthr EXCEPT ![th].pc = "unlock", ![th].seen = Len(reg_log),
                            ![th].local = [list |-> [i \in 1..Len(sellers) |-> sellers[i].value]]]
    /\ UNCHANGED <<program, sellers, reg_log, scriptVars, buyerSide, sellerSide>>

\* get_first_url: with self._lock: None, or next(iter(self._sellers.values())).url
GetFirstUrlBody(th) ==
    /\ program = "registry"
    /\ rthr[th].pc = "lock" /\ rthr[th].op = "get_first_url"
    /\ rlock = 0
    /\ rlock' = th
    /\ rthr' = [rthr EXCEPT ![th].pc = "unlock", ![th].seen = Len(reg_log),
                            ![th].local = IF sellers = <<>> THEN None
                                          ELSE [url |-> sellers[1].value.url]]
    /\ UNCHANGED <<program, sellers, reg_log, scriptVars, buyerSide, sellerSide>>

\* the with block ends; the rest of the method runs on its locals and returns
RegistryRelease(th) ==
    /\ program = "registry"
    /\ rthr[th].pc = "unlock"
    /\ rlock' = 0
    /\ LET local == rthr[th].local
           result == CASE rthr[th].op = "register" -> local
                       [] rthr[th].op = "get_payment_info" -> payment_info(local)
                       [] rthr[th].op = "list_all" -> [list |-> summaries(local.list)]
                       [] rthr[th].op = "get_first_url" -> local
       IN  rthr' = [rthr EXCEPT ![th].pc = "returned", ![th].result = result]
    /\ UNCHANGED <<program, sellers, reg_log, scriptVars, buyerSide, sellerSide>>

\* purchase_a2a(query, agent_url), lines 217-221: url = agent_url or
\* SELLER_A2A_URL (unset), then the registry's first url when there is none
PurchaseA2ACall(th) ==
    /\ program = "registry"
    /\ Ready(th)
    /\ \E agent_url \in RawUrls \cup {<<>>} :
          rthr' = [rthr EXCEPT ![th] =
                      [IdleClient EXCEPT !.tool = "purchase_a2a", !.pc = "lock",
                           !.op = IF agent_url = <<>> THEN "get_first_url"
                                  ELSE "get_payment_info",
                           !.agent_url = agent_url]]
    /\ UNCHANGED <<program, sellers, rlock, reg_log, scriptVars, buyerSide, sellerSide>>

\* purchase_a2a, lines 222-233: no url at all is an error; otherwise the
\* cached payment info of the url is looked up
PurchaseA2AUrl(th) ==
    /\ program = "registry"
    /\ rthr[th].tool = "purchase_a2a"
    /\ rthr[th].pc = "returned" /\ rthr[th].op = "get_first_url"
    /\ IF rthr[th].result = None
       THEN rthr' = [rthr EXCEPT ![th].pc = "purchased",
                                 ![th].result = [status |-> "error"]]
       ELSE rthr' = [rthr EXCEPT ![th].pc = "lock", ![th].op = "get_payment_info",
                                 ![th].agent_url = rthr[th].result.url,
                                 ![th].local = None, ![th].result = None]
    /\ UNCHANGED <<program, sellers, rlock, reg_log, scriptVars, buyerSide, sellerSide>>

\* a purchase that fetches the agent card whatever the registry holds
PurchaseA2APaymentInfo_always_discovers(th) ==
    /\ program = "registry"
    /\ rthr[th].tool = "purchase_a2a"
    /\ rthr[th].pc = "returned" /\ rthr[th].op = "get_payment_info"
    /\ rthr' = [rthr EXCEPT ![th].pc = "purchased", ![th].fetches = @ + 1,
                            ![th].result = [status |-> "error"]]
    /\ UNCHANGED <<program, sellers, rlock, reg_log, scriptVars, buyerSide, sellerSide>>

\* purchase_a2a, lines 234-259: the payment info comes from the registry
\* or, when there is none, from discover_agent_impl's fetch of the agent
\* card; no plan id is an error
PurchaseA2APaymentInfo(th) ==
    /\ program = "registry"
    /\ rthr[th].tool = "purchase_a2a"
    /\ rthr[th].pc = "returned" /\ rthr[th].op = "get_payment_info"
    /\ LET cached == rthr[th].result
           Ready_(plan_id, agent_id, min_credits) ==
               IF plan_id = "" THEN [status |-> "error"]
               ELSE [status |-> "ready", plan_id |-> plan_id, agent_id |-> agent_id,
                     min_credits |-> min_credits]
       IN  IF cached # None
           THEN rthr' = [rthr EXCEPT ![th].pc = "purchased",
                            ![th].result =
                                Ready_(IF cached.planId # "" THEN cached.planId ELSE NVM_PLAN_ID,
                                       IF cached.agentId # "" THEN cached.agentId ELSE NVM_AGENT_ID,
                                       cached.credits)]
           ELSE \/ \* discovery fails
                   rthr' = [rthr EXCEPT ![th].pc = "purchased", ![th].fetches = @ + 1,
                                        ![th].result = [status |-> "error"]]
                \/ \* discovery answers with an agent card
                   \E card \in AgentCards :
                      LET payment == payment_params(get(get(card, "capabilities", EmptyDict),
                                                        "extensions", <<>>))
                      IN  rthr' = [rthr EXCEPT ![th].pc = "purchased", ![th].fetches = @ + 1,
                                      ![th].result =
                                          Ready_(get(payment, "planId", NVM_PLAN_ID),
                                                 get(payment, "agentId", NVM_AGENT_ID),
                                                 get(payment, "credits", 1))]
    /\ UNCHANGED <<program, sellers, rlock, reg_log, scriptVars, buyerSide, sellerSide>>

InitRegistry ==
    /\ program = "registry"
    /\ sellers = <<>>
    /\ rlock = 0
    /\ rthr = [th \in Clients |-> IdleClient]
    /\ reg_log = <<>>
    /\ held = [op |-> "none", changes |-> 0, refs |-> <<>>, list |-> <<>>]
    /\ script = [pc |-> "none"]
    /\ extract = [events |-> <<>>]
    /\ registration = [pc |-> "none"]
    /\ BuyerSideUnused
    /\ SellerSideUnused

NextRegistry ==
    \E th \in Clients :
        \/ RegisterCall(th)
        \/ ReadCall(th)
        \/ RegisterStore(th)
        \/ GetPaymentInfoLookup(th)
        \/ ListAllCopy(th)
        \/ GetFirstUrlBody(th)
        \/ RegistryRelease(th)
        \/ PurchaseA2ACall(th)
        \/ PurchaseA2AUrl(th)
        \/ PurchaseA2APaymentInfo(th)

SpecRegistry == InitRegistry /\ [][NextRegistry]_vars

----------------------------------------------------------------------------
(* program "snapshot": a caller keeps what get_status() and list_all()     *)
(* returned and changes it, while purchases are recorded and sellers       *)
(* registered.  A purchase dict is never removed from _purchases, so its   *)
(* position there is its identity: the list get_status returns is a new    *)
(* list of the same dicts, held as their positions; the summaries list_all *)
(* returns are new dicts with new skills lists, held as values.            *)

MaxChanges == 2        \* changes the caller makes to what it holds

\* record_purchase(credits, seller_url, query)
SnapshotRecordPurchase ==
    /\ program = "snapshot"
    /\ purchase_count < MaxPurchases
    /\ \E credits \in 1..MaxCredits, s \in Sellers, q \in BuyerQueryLens :
          record_purchase(credits, s, q)
    /\ UNCHANGED <<program, registryVars, scriptVars, today, ret, buyerVars,
                   threadVars, sellerSide>>

\* register(agent_url, agent_card)
SnapshotRegister ==
    /\ program = "snapshot"
    /\ \E agent_url \in RawUrls, agent_card \in AgentCards :
          sellers' = dict_set(sellers, rstrip(agent_url),
                              seller_info(agent_url, agent_card))
    /\ UNCHANGED <<program, rlock, rthr, reg_log, scriptVars, buyerSide, sellerSide>>

\* status = get_status(): "recent_purchases": self._purchases[-5:]
SnapshotGetStatus ==
    /\ program = "snapshot"
    /\ get_status
    /\ held' = [op |-> "get_status", changes |-> held.changes, list |-> <<>>,
                refs |-> LastN([i \in 1..Len(purchases) |-> i], RecentKept)]
    /\ UNCHANGED <<program, registryVars, script, extract, registration, today, ret,
                   buyerVars, threadVars, sellerSide>>

\* sellers = list_all()
SnapshotListAll ==
    /\ program = "snapshot"
    /\ held' = [op |-> "list_all", changes |-> held.changes, refs |-> <<>>,
                list |-> summaries([i \in 1..Len(sellers) |-> sellers[i].value])]
    /\ UNCHANGED <<program, registryVars, script, extract, registration, buyerSide,
                   sellerSide>>

\* the caller writes to a purchase record of the status it holds:
\* status["recent_purchases"][i]["credits"] = 0
CallerChangesRecord ==
    /\ program = "snapshot"
    /\ held.op = "get_status" /\ held.changes < MaxChanges
    /\ \E i \in 1..Len(held.refs) :
          purchases' = [purchases EXCEPT ![held.refs[i]].credits = 0]
    /\ held' = [held EXCEPT !.changes = @ + 1]
    /\ UNCHANGED <<program, registryVars, script, extract, registration, today,
                   max_daily, max_per_request, daily_spend, total_spend, purchase_count,
                   current_day, today_log, ret, buyerVars, threadVars, sellerSide>>

\* the caller changes the list it holds: it drops the first element, sets
\* a summary's credits, or appends to a summary's skills
CallerChangesList ==
    /\ program = "snapshot"
    /\ held.changes < MaxChanges
    /\ \/ /\ held.op = "get_status" /\ held.refs # <<>>
          /\ held' = [held EXCEPT !.changes = @ + 1, !.refs = Tail(@)]
       \/ /\ held.op = "list_all"
          /\ \E i \in 1..Len(held.list) :
                \/ held' = [held EXCEPT !.changes = @ + 1, !.list[i].credits = 0]
                \/ held' = [held EXCEPT !.changes = @ + 1,
                                        !.list[i].skills = Append(@, "changed")]
    /\ UNCHANGED <<program, registryVars, script, extract, registration, buyerSide,
                   sellerSide>>

InitSnapshot ==
    /\ program = "snapshot"
    /\ sellers = <<>>
    /\ rlock = 0
    /\ rthr = <<>>
    /\ reg_log = <<>>
    /\ held = [op |-> "none", changes |-> 0, refs |-> <<>>, list |-> <<>>]
    /\ script = [pc |-> "none"]
    /\ extract = [events |-> <<>>]
    /\ registration = [pc |-> "none"]
    /\ BuyerSideUnused
    /\ SellerSideUnused

NextSnapshot ==
    \/ SnapshotRecordPurchase
    \/ SnapshotRegister
    \/ SnapshotGetStatus
    \/ SnapshotListAll
    \/ CallerChangesRecord
    \/ CallerChangesList

SpecSnapshot == InitSnapshot /\ [][NextSnapshot]_vars

----------------------------------------------------------------------------
(* program "client": the scripted flow of client.py, on its own Budget     *)

ClientMaxDaily == 100          \* Budget(max_daily=100, ...)
ClientMaxPerRequest == 10      \* Budget(..., max_per_request=10)
Step4Credits == 10             \* budget.can_spend(10)

\* steps 3 and 4: result = purchase_data_impl(...)
ClientPurchase ==
    /\ program = "client"
    /\ script.pc \in {"step3", "purchase4"}
    /\ \E result \in ImplResults("data") :
          script' = [pc |-> IF script.pc = "step3" THEN "record3" ELSE "record4",
                     result |-> result]
    /\ UNCHANGED <<program, registryVars, held, extract, registration, buyerSide,
                   sellerSide>>

\* steps 3 and 4: if result.get("status") == "success":
\*                    budget.record_purchase(result["credits_used"], SELLER_URL, query)
ClientRecord ==
    /\ program = "client"
    /\ script.pc \in {"record3", "record4"}
    /\ IF script.result.status = "success"
       THEN \E s \in Sellers, q \in BuyerQueryLens :
               record_purchase(script.result.credits_used, s, q)
       ELSE UNCHANGED budgetVars
    /\ script' = [script EXCEPT !.pc = IF script.pc = "record3" THEN "step4" ELSE "step5"]
    /\ UNCHANGED <<program, registryVars, held, extract, registration, today, ret,
                   buyerVars, threadVars, sellerSide>>

\* step 4: allowed, reason = budget.can_spend(10); if allowed: ...
ClientCanSpend ==
    /\ program = "client"
    /\ script.pc = "step4"
    /\ can_spend(Step4Credits)
    /\ script' = [script EXCEPT !.pc =
                     IF can_spend_result(Step4Credits, reset_if_new_day.daily_spend).allowed
                     THEN "purchase4" ELSE "step5"]
    /\ UNCHANGED <<program, registryVars, held, extract, registration, today, ret,
                   buyerVars, threadVars, sellerSide>>

\* step 5: status = budget.get_status()
ClientGetStatus ==
    /\ program = "client"
    /\ script.pc = "step5"
    /\ get_status
    /\ script' = [script EXCEPT !.pc = "done"]
    /\ UNCHANGED <<program, registryVars, held, extract, registration, today, ret,
                   buyerVars, threadVars, sellerSide>>

InitClient ==
    /\ program = "client"
    /\ sellers = <<>>
    /\ rlock = 0
    /\ rthr = <<>>
    /\ reg_log = <<>>
    /\ held = [op |-> "none", changes |-> 0, refs |-> <<>>, list |-> <<>>]
    /\ script = [pc |-> "step3", result |-> [status |-> "none", credits_used |-> 0]]
    /\ extract = [events |-> <<>>]
    /\ registration = [pc |-> "none"]
    /\ today = 0
    /\ BudgetInit(ClientMaxDaily, ClientMaxPerRequest)
    /\ bpc = BuyerIdle
    /\ breq = [b \in Buyers |-> NoRequest]
    /\ ThreadsUnused
    /\ SellerSideUnused

NextClient == Tick \/ ClientPurchase \/ ClientRecord \/ ClientCanSpend \/ ClientGetStatus

SpecClient == InitClient /\ [][NextClient]_vars

----------------------------------------------------------------------------
(* program "extract": _extract_from_events on the events of one stream.    *)
(* An event is the pair (task, status_update) unwrapped: the task's state  *)
(* ("none" for a task without status), the parts of its status message,    *)
(* the task's metadata and the status update's (None when the event has    *)
(* no status update, or the object has no metadata).                       *)

MaxEvents == 3         \* events of one stream

\* the events a seller's stream is made of
EventShapes ==
    LET Answer == <<"o", "k">> IN
    { [state |-> "none", parts |-> <<>>, task_metadata |-> None, update_metadata |-> None],
      [state |-> "working", parts |-> <<[kind |-> "text", text |-> Answer]>>,
       task_metadata |-> None, update_metadata |-> EmptyDict],
      [state |-> "completed", parts |-> <<[kind |-> "text", text |-> Answer]>>,
       task_metadata |-> None, update_metadata |-> [creditsUsed |-> 2]],
      [state |-> "completed", parts |-> <<[kind |-> "data"]>>,
       task_metadata |-> [creditsUsed |-> 1], update_metadata |-> [creditsUsed |-> 0]],
      [state |-> "completed", parts |-> <<[kind |-> "text", text |-> Answer],
                                          [kind |-> "text", text |-> Answer]>>,
       task_metadata |-> [creditsUsed |-> 1], update_metadata |-> None],
      [state |-> "failed", parts |-> <<[kind |-> "text", text |-> Answer]>>,
       task_metadata |-> [creditsUsed |-> 1], update_metadata |-> [creditsUsed |-> 2]],
      [state |-> "canceled", parts |-> <<>>,
       task_metadata |-> None, update_metadata |-> [creditsUsed |-> 0]] }

\* _extract_text_from_parts: the texts of the text parts, joined
RECURSIVE extract_text_from_parts(_)
extract_text_from_parts(parts) ==
    IF parts = <<>> THEN <<>>
    ELSE (IF Head(parts).kind = "text" THEN get(Head(parts), "text", <<>>) ELSE <<>>)
         \o extract_text_from_parts(Tail(parts))

\* _get_metadata_value(obj, "creditsUsed"): metadata = obj.metadata or {}
get_metadata_value(metadata, key) ==
    get(IF metadata = None THEN EmptyDict ELSE metadata, key, 0)

\* the loop of _extract_from_events over reversed(events)
RECURSIVE extract_loop(_)
extract_loop(evs) ==
    IF evs = <<>>
    THEN [status |-> "success", text |-> <<"n", "o", " ", "t", "e", "x", "t">>,
          credits_used |-> 0]
    ELSE LET event == evs[Len(evs)]
             NoText == <<"n", "o", " ", "t", "e", "x", "t">>
             TaskFailedText == <<"f", "a", "i", "l", "e", "d">>
             text == extract_text_from_parts(event.parts)
             from_update == IF event.update_metadata # None
                            THEN get_metadata_value(event.update_metadata, "creditsUsed")
                            ELSE 0
             credits == IF from_update = 0
                             THEN get_metadata_value(event.task_metadata, "creditsUsed")
                             ELSE from_update
         IN  CASE event.state = "completed" ->
                      [status |-> "success",
                       text |-> IF text # <<>> THEN text ELSE NoText,
                       credits_used |-> credits]
               [] event.state = "failed" ->
                      [status |-> "error",
                       text |-> IF text # <<>> THEN text ELSE TaskFailedText,
                       credits_used |-> 0]
               [] OTHER -> extract_loop(SubSeq(evs, 1, Len(evs) - 1))

\* _extract_from_events(events)
extract_from_events(evs) ==
    IF evs = <<>>
    THEN [status |-> "success", credits_used |-> 0,
          text |-> <<"n", "o", " ", "e", "v", "e", "n", "t", "s">>]
    ELSE extract_loop(evs)

\* result = _extract_from_events(events)
ExtractFromEvents ==
    /\ program = "extract"
    /\ "result" \notin DOMAIN extract
    /\ extract' = [events |-> extract.events,
                   result |-> extract_from_events(extract.events)]
    /\ UNCHANGED <<program, registryVars, held, script, registration, buyerSide,
                   sellerSide>>

InitExtract ==
    /\ program = "extract"
    /\ sellers = <<>>
    /\ rlock = 0
    /\ rthr = <<>>
    /\ reg_log = <<>>
    /\ held = [op |-> "none", changes |-> 0, refs |-> <<>>, list |-> <<>>]
    /\ script = [pc |-> "none"]
    /\ \E n \in 0..MaxEvents : \E evs \in [1..n -> EventShapes] :
          extract = [events |-> evs]
    /\ registration = [pc |-> "none"]
    /\ BuyerSideUnused
    /\ SellerSideUnused

NextExtract == ExtractFromEvents

SpecExtract == InitExtract /\ [][NextExtract]_vars

----------------------------------------------------------------------------
(* program "registration": the seller's _register_with_buyer thread        *)

Attempts == 3          \* for attempt in range(1, 4)

\* what a POST to the buyer ends with: a response with a status code, or an
\* exception (no connection, timeout)
PostOutcomes ==
    {[status |-> 200], [status |-> 404], [status |-> 500],
     [exception |-> "ConnectError"], [exception |-> "ReadTimeout"]}

Registered(outcome) == "status" \in DOMAIN outcome /\ outcome.status = 200

\* time.sleep(2), the payload, and the first pass of the for loop
RegistrationStart ==
    /\ program = "registration"
    /\ registration.pc = "start"
    /\ registration' = [registration EXCEPT !.pc = "post", !.attempt = 1]
    /\ UNCHANGED <<program, registryVars, held, script, extract, buyerSide, sellerSide>>

\* a POST whose exception is not caught: the thread ends with it
RegistrationPost_exception_escapes ==
    /\ program = "registration"
    /\ registration.pc = "post"
    /\ \E outcome \in PostOutcomes :
          registration' =
              [registration EXCEPT
                  !.posts = Append(@, outcome),
                  !.pc = IF Registered(outcome) \/ "exception" \in DOMAIN outcome
                         THEN "done" ELSE "sleep",
                  !.log = IF Registered(outcome) THEN "SUCCESS" ELSE "FAILED"]
    /\ UNCHANGED <<program, registryVars, held, script, extract, buyerSide, sellerSide>>

\* the try block: resp = client.post(buyer_url, json=payload); a 200
\* returns, any other status and any exception is logged as FAILED
RegistrationPost ==
    /\ program = "registration"
    /\ registration.pc = "post"
    /\ \E outcome \in PostOutcomes :
          registration' =
              [registration EXCEPT
                  !.posts = Append(@, outcome),
                  !.pc = IF Registered(outcome) THEN "done" ELSE "sleep",
                  !.log = IF Registered(outcome) THEN "SUCCESS" ELSE "FAILED"]
    /\ UNCHANGED <<program, registryVars, held, script, extract, buyerSide, sellerSide>>

\* time.sleep(2), then the next pass of the loop, or after the last pass
\* the ERROR log and the return
RegistrationSleep ==
    /\ program = "registration"
    /\ registration.pc = "sleep"
    /\ registration' =
           IF registration.attempt < Attempts
           THEN [registration EXCEPT !.pc = "post", !.attempt = @ + 1]
           ELSE [registration EXCEPT !.pc = "done", !.log = "ERROR"]
    /\ UNCHANGED <<program, registryVars, held, script, extract, buyerSide, sellerSide>>

InitRegistration ==
    /\ program = "registration"
    /\ sellers = <<>>
    /\ rlock = 0
    /\ rthr = <<>>
    /\ reg_log = <<>>
    /\ held = [op |-> "none", changes |-> 0, refs |-> <<>>, list |-> <<>>]
    /\ script = [pc |-> "none"]
    /\ extract = [events |-> <<>>]
    /\ registration = [pc |-> "start", attempt |-> 0, posts |-> <<>>, log |-> "SENDING"]
    /\ BuyerSideUnused
    /\ SellerSideUnused

NextRegistration == RegistrationStart \/ RegistrationPost \/ RegistrationSleep

SpecRegistration == InitRegistration /\ [][NextRegistration]_vars

\* the thread is scheduled, every POST returns or raises within its
\* timeout, and every sleep ends
SpecRegistrationLive == SpecRegistration /\ WF_vars(NextRegistration)

----------------------------------------------------------------------------
(* The three bindings a request can travel through: the buyer's purchase   *)
(* tools, the seller's A2A executor, the seller's HTTP endpoint.           *)

Init == InitBuyer \/ InitA2A \/ InitHttp

Next == NextBuyer \/ NextA2A \/ NextHttp

Spec == Init /\ [][Next]_vars

----------------------------------------------------------------------------
(* Claims *)

\* the largest element of a sequence of naturals (0 when empty)
RECURSIVE MaxSeq(_)
MaxSeq(s) == IF s = <<>> THEN 0 ELSE Max(Head(s), MaxSeq(Tail(s)))

\* C1: can_spend(amount), after the rollover, denies exactly when
\* (perRequestLimit > 0 and amount > perRequestLimit) or (dailyLimit > 0 and
\* dailySpend + amount > dailyLimit), the per-request reason winning when
\* both apply, and allows otherwise.  Hence with one thread, within one day,
\* a daily limit set and the per-request check out of the way, after
\* record_purchase calls summing to S can_spend(a) allows exactly when
\* S + a <= dailyLimit.
C1_CanSpendDecision ==
    (program = "budget" /\ ret.op = "can_spend") =>
        LET a == ret.credits
            per_request == max_per_request > 0 /\ a > max_per_request
            daily == max_daily > 0 /\ daily_spend + a > max_daily
            S == SumSeq(today_log)
        IN  /\ ret.result.allowed = ~(per_request \/ daily)
            /\ per_request => ret.result.reason = "per_request"
            /\ (~per_request /\ daily) => ret.result.reason = "daily"
            /\ (today = 0 /\ max_daily > 0 /\ ~per_request) =>
                   (ret.result.allowed <=> S + a <= max_daily)

\* C1 witness: within the first day, after purchases were recorded,
\* can_spend has denied an amount on the daily limit
C1_Witness ==
    /\ program = "budget" /\ ret.op = "can_spend" /\ today = 0
    /\ Len(today_log) >= 2
    /\ ret.result.reason = "daily"
    /\ ret.credits > 0

EventsIn(t, state) == {i \in 1..Len(events[t]) : events[t][i].state = state}

\* what the Credit Calculator gives for the tools the agent invoked for task
\* t: their prices summed, 1 for an unpriced tool, 1 when there was none
RECURSIVE PriceSum(_)
PriceSum(names) ==
    IF names = <<>> THEN 0
    ELSE (IF Head(names) \in DOMAIN credit_map THEN credit_map[Head(names)] ELSE 1)
         + PriceSum(Tail(names))

OwnCredits(t) == Max(1, PriceSum(tloc[t].tool_uses))

\* C3: when the agent invocation of an execute() run raised, the run's
\* terminal event is Failed with creditsUsed = 0 and the run emits no
\* Completed event, also when priced tools had been invoked before.
C3_FailedIsFree ==
    program = "a2a" =>
        \A t \in Tasks :
            /\ tloc[t].raised => EventsIn(t, "completed") = {}
            /\ (tloc[t].raised /\ tpc[t] = "done") =>
                   /\ Cardinality(EventsIn(t, "failed")) = 1
                   /\ \A i \in EventsIn(t, "failed") :
                         events[t][i].creditsUsed = <<0>> /\ events[t][i].final

\* C3 witness: a run whose agent invoked a priced tool and then raised has
\* finished
C3_Witness ==
    /\ program = "a2a"
    /\ \E t \in Tasks :
          /\ tloc[t].raised /\ tpc[t] = "done"
          /\ tloc[t].tool_uses = <<"summarize_data">>
          /\ "summarize_data" \in DOMAIN credit_map
          /\ EventsIn(t, "failed") # {}

\* C4 as claimed: every Canceled event carries creditsUsed = 0, and after a
\* task's Canceled event no event of that task carries a nonzero creditsUsed.
C4_CanceledIsFinal ==
    program = "a2a" =>
        \A t \in Tasks : \A i \in EventsIn(t, "canceled") :
            /\ events[t][i].creditsUsed = <<0>>
            /\ \A j \in (i + 1)..Len(events[t]) :
                  events[t][j].creditsUsed \in {<<>>, <<0>>}

\* C6: for tasks run one after another on the one agent, the credits of a
\* task's Completed event are those of the tools invoked for that task
\* (after the offset captured at its start), never those of earlier tasks.
C6_OnlyThisTasksTools ==
    program = "a2a" =>
        \A t \in Tasks : \A i \in EventsIn(t, "completed") :
            events[t][i].creditsUsed = <<OwnCredits(t)>>

\* C6 witness: a task that invoked a tool has completed on an agent whose
\* history already held an earlier task's tool invocation
C6_Witness ==
    /\ program = "a2a"
    /\ \E t, u \in Tasks :
          /\ t # u
          /\ tpc[u] = "done" /\ tloc[u].tool_uses # <<>>
          /\ tpc[t] = "done" /\ tloc[t].tool_uses # <<>>
          /\ tloc[t].msg_offset > 0
          /\ EventsIn(t, "completed") # {}

\* C9 as claimed: a Completed event carries the full response text and
\* creditsUsed equal to the Credit Calculator's result for that task's own
\* tool invocations; a single tool priced 5 gives 5.
C9_CompletedCarriesOwnCredits ==
    program = "a2a" =>
        \A t \in Tasks : \A i \in EventsIn(t, "completed") :
            /\ events[t][i].text = tloc[t].response_text
            /\ events[t][i].creditsUsed = <<OwnCredits(t)>>
            /\ (tloc[t].tool_uses = <<"summarize_data">>
                    /\ "summarize_data" \in DOMAIN credit_map)
                   => events[t][i].creditsUsed = <<5>>

\* every position of a block in a list of messages
BlockPositions(msgs) ==
    UNION {{<<i, j>> : j \in 1..Len(msgs[i])} : i \in 1..Len(msgs)}

\* the tool_use blocks of a list of messages that name tool n
ToolUsesOf(msgs, n) ==
    {p \in BlockPositions(msgs) : msgs[p[1]][p[2]] = ToolUse(n)}

RECURSIVE PricedCount(_, _)
PricedCount(names, msgs) ==
    IF names = {} THEN 0
    ELSE LET n == CHOOSE x \in names : TRUE
             price == IF n \in DOMAIN credit_map THEN credit_map[n] ELSE 1
         IN  price * Cardinality(ToolUsesOf(msgs, n)) + PricedCount(names \ {n}, msgs)

\* C7: _calculate_credits returns the sum over the tool_use blocks of its
\* messages of the tool's configured price, 1 for a tool without configured
\* price, and returns 1 when there is no tool_use block.
C7_CalculateCredits ==
    (program = "calc" /\ call.fn = "_calculate_credits") =>
        call.result =
            IF \A n \in ToolNames : ToolUsesOf(messages, n) = {}
            THEN 1
            ELSE PricedCount(ToolNames, messages)

\* C7 witness: the function was applied to two messages that hold a priced
\* tool_use and one without configured price
C7_Witness ==
    /\ program = "calc"
    /\ call.fn = "_calculate_credits"
    /\ Len(messages) = 2
    /\ ToolUsesOf(messages, "summarize_data") # {}
    /\ ToolUsesOf(messages, "lookup") # {}
    /\ "summarize_data" \in DOMAIN credit_map
    /\ call.result = 6

Clamp(x, lo, hi) == IF x < lo THEN lo ELSE IF x > hi THEN hi ELSE x

C5_PaidWorkAtMostOnce ==
    /\ program = "http" =>
          /\ hreq # <<>> => hreq.invoked <= 1
          /\ \A i \in 1..Len(responses) : responses[i].invoked <= 1
    /\ program = "a2a" => \A t \in Tasks : tloc[t].invoked <= 1
    /\ program = "buyer" => \A b \in Buyers : breq[b].tool # "none" => breq[b].sent <= 1

\* C5 witness: POST /data answered a request whose tool ran and whose
\* settlement is missing, having invoked the agent once
C5_Witness ==
    /\ program = "http"
    /\ hpc = "idle"
    /\ \E i \in 1..Len(responses) :
          /\ responses[i].tool_ran
          /\ responses[i].status = 200
          /\ responses[i].credits_used = <<0>>
          /\ responses[i].invoked = 1

\* C10 as claimed: every HTTP 200 response of POST /data reports
\* credits_used >= 1 and every Completed event reports creditsUsed >= 1.
C10_SuccessCostsAtLeastOne ==
    /\ program = "http" =>
          \A i \in 1..Len(responses) :
              responses[i].status = 200 => responses[i].credits_used[1] >= 1
    /\ program = "a2a" =>
          \A t \in Tasks : \A i \in EventsIn(t, "completed") :
              events[t][i].creditsUsed[1] >= 1

\* the events execute() enqueued for task t, in order: those of the task's
\* queue that are not the Canceled status of a cancel() call
NotCanceled(e) == e.state # "canceled"
ExecuteEvents(t) == SelectSeq(events[t], NotCanceled)

\* C11: an execute() run enqueues a Submitted task without message (only when
\* the request has no current task), then a Working status with final=false,
\* only then invokes the agent, and after the invocation returned or raised
\* enqueues exactly one terminal status (Completed or Failed, final=true) and
\* nothing after it.
C11_EventOrder ==
    program = "a2a" =>
        \A t \in Tasks :
            LET E == ExecuteEvents(t)
                first == IF tloc[t].current_task THEN <<>> ELSE <<submitted_task>>
                n == Len(first)
            IN  /\ tpc[t] = "new" => E = <<>>
                /\ tpc[t] = "accepted" => E = first
                /\ tpc[t] \notin {"new", "accepted"} =>
                      /\ SubSeq(E, 1, n) = first
                      /\ Len(E) >= n + 1
                      /\ E[n + 1].state = "working" /\ ~E[n + 1].final
                /\ tpc[t] \in {"working", "invoked", "running", "returned", "raised"} =>
                      Len(E) = n + 1
                /\ tloc[t].invoked > 0 => tpc[t] \notin {"new", "accepted", "working"}
                /\ tpc[t] = "done" =>
                      /\ Len(E) = n + 2
                      /\ E[n + 2].final
                      /\ E[n + 2].state = (IF tloc[t].raised THEN "failed" ELSE "completed")
                      /\ tloc[t].invoked = 1

\* C11 witness: a run for a request without current task has finished with
\* the events Submitted, Working, Completed, and another has finished Failed
C11_Witness ==
    /\ program = "a2a"
    /\ \E t, u \in Tasks :
          /\ tpc[t] = "done" /\ ~tloc[t].current_task /\ ~tloc[t].raised
          /\ Len(ExecuteEvents(t)) = 3
          /\ ExecuteEvents(t)[1] = submitted_task
          /\ tpc[u] = "done" /\ tloc[u].raised

\* the credits of a sequence of PurchaseRecords, summed
RECURSIVE RecordedCredits(_)
RecordedCredits(records) ==
    IF records = <<>> THEN 0
    ELSE Head(records).credits + RecordedCredits(Tail(records))

\* C12: record_purchase never refuses: totalSpend is the sum of all recorded
\* amounts, purchaseCount the number of calls, dailySpend the sum of the
\* amounts recorded since the last rollover (so dailySpend <= totalSpend),
\* and a stored record holds the first 100 characters of the query (100 of a
\* query of 150).
C12_RecordPurchaseTotals ==
    program = "budget" =>
        /\ total_spend = RecordedCredits(purchases)
        /\ purchase_count = Len(purchases)
        /\ daily_spend = SumSeq(today_log)
        /\ daily_spend <= total_spend
        /\ \A i \in 1..Len(purchases) : purchases[i].query <= 100
        /\ ret.op = "record_purchase" =>
              LET stored == purchases[Len(purchases)]
              IN  /\ purchases # <<>>
                  /\ stored.credits = ret.credits
                  /\ today_log # <<>> /\ today_log[Len(today_log)] = ret.credits
                  /\ ret.query <= 100 => stored.query = ret.query
                  /\ ret.query = 150 => stored.query = 100

\* C12 witness: a purchase with a query of 150 characters was recorded
\* although it took the day's spend over the daily limit, after a rollover
C12_Witness ==
    /\ program = "budget"
    /\ ret.op = "record_purchase" /\ ret.query = 150
    /\ max_daily > 0 /\ daily_spend > max_daily
    /\ daily_spend < total_spend
    /\ purchase_count = 3

\* C13: the first Budget operation after the date advanced resets dailySpend
\* to 0 (a record_purchase then adds its amount), once per date change:
\* operations on an unchanged date never lower dailySpend, and the date
\* advancing does not touch it; totalSpend and purchaseCount never decrease.
C13_DailyResetOnce ==
    [][program = "budget" =>
         /\ total_spend' >= total_spend
         /\ purchase_count' >= purchase_count
         /\ today' # today => UNCHANGED <<daily_spend, current_day>>
         /\ (today' = today /\ today # current_day) =>
               /\ current_day' = today
               /\ daily_spend' = (IF ret'.op = "record_purchase" THEN ret'.credits ELSE 0)
         /\ (today' = today /\ today = current_day) =>
               /\ current_day' = current_day
               /\ daily_spend' = daily_spend
                                 + (IF purchase_count' # purchase_count THEN ret'.credits ELSE 0)
    ]_vars

\* C13 witness: after three purchases on the old date, can_spend was the
\* first operation on the new date and left dailySpend 0 with the totals kept
C13_Witness ==
    /\ program = "budget"
    /\ today = 1 /\ current_day = 1
    /\ ret.op = "can_spend"
    /\ daily_spend = 0 /\ today_log = <<>>
    /\ purchase_count = 3 /\ total_spend >= 3

\* the threads inside a with self._lock block
Inside == {th \in Threads : thr[th].pc \notin {"idle", "lock"}}

\* C14: the three Budget operations are atomic with respect to each other.
\* At most one thread is inside a method body; whenever no thread is inside,
\* totalSpend is the sum of the completed record_purchase calls,
\* purchaseCount their number, the stored records theirs in order, and
\* dailySpend the sum of those recorded since the last reset; every
\* get_status snapshot is that state (total_spent the sum of exactly
\* total_purchases amounts, daily_remaining = daily_limit - daily_spent).
C14_OperationsAtomic ==
    program = "threads" =>
        /\ Cardinality(Inside) <= 1
        /\ Inside = {} =>
              /\ total_spend = SumSeq(calls)
              /\ purchase_count = Len(calls)
              /\ Len(purchases) = Len(calls)
              /\ \A i \in 1..Len(calls) : purchases[i].credits = calls[i]
              /\ daily_spend = SumSeq(today_log)
        /\ \A th \in Threads :
              (thr[th].pc = "unlock" /\ thr[th].op = "get_status") =>
                  LET snap == thr[th].snap
                  IN  /\ snap.total_purchases = Len(calls)
                      /\ snap.total_spent = SumSeq(calls)
                      /\ snap.daily_spent = SumSeq(today_log)
                      /\ max_daily > 0 =>
                            snap.daily_remaining = snap.daily_limit - snap.daily_spent
                      /\ snap.recent_purchases = LastN(purchases, RecentKept)
                      /\ Len(purchases) = Len(calls)

\* C14 witness: get_status is about to return on the new date while another
\* thread waits for the lock, after purchases recorded before and after the
\* reset
C14_Witness ==
    /\ program = "threads"
    /\ today = 1
    /\ \E th, other \in Threads :
          /\ thr[th].pc = "unlock" /\ thr[th].op = "get_status"
          /\ thr[other].pc = "lock" /\ thr[other].op = "can_spend"
          /\ thr[th].snap.total_purchases = 3
          /\ thr[th].snap.daily_spent > 0
          /\ thr[th].snap.daily_spent < thr[th].snap.total_spent

\* can_spend would deny the amount a purchase tool asks for
Denied(b) ==
    LET spend == IF today # current_day THEN 0 ELSE daily_spend
        credits == breq[b].min_credits
    IN  \/ max_per_request > 0 /\ credits > max_per_request
        \/ max_daily > 0 /\ spend + credits > max_daily

\* C15: when can_spend denies, purchase_data and purchase_a2a return
\* budget_exceeded with credits_used = 0, having asked for no payment token,
\* sent no paid request and made no record_purchase call; and only then do
\* they return budget_exceeded.
C15_DenialIsLocal ==
    [][program = "buyer" =>
         \A b \in Buyers :
             /\ (bpc[b] = "check" /\ bpc'[b] # "check") =>
                   IF Denied(b)
                   THEN /\ bpc'[b] = "returned"
                        /\ breq'[b].status = "budget_exceeded"
                        /\ UNCHANGED <<total_spend, purchase_count, purchases>>
                   ELSE bpc'[b] = "admitted" /\ breq'[b].status = "none"
             /\ breq'[b].tool # "none" /\ breq'[b].status = "budget_exceeded" =>
                   /\ bpc'[b] = "returned"
                   /\ breq'[b].credits_used = 0
                   /\ breq'[b].tokens = 0
                   /\ breq'[b].sent = 0
                   /\ breq'[b].recorded = 0
    ]_vars

\* C15 witness: purchase_a2a returned budget_exceeded on the daily limit
\* after earlier purchases were recorded
C15_Witness ==
    /\ program = "buyer"
    /\ max_daily > 0 /\ max_per_request = 0
    /\ purchase_count > 0
    /\ \E b \in Buyers :
          /\ bpc[b] = "returned"
          /\ breq[b].tool = "a2a"
          /\ breq[b].status = "budget_exceeded"

\* C16 as claimed: a purchase that returns budget_exceeded has sent no
\* request of any kind to the seller, the fetch of the agent card included.
C16_DenialNeverReachesSeller ==
    program = "buyer" =>
        \A b \in Buyers :
            (breq[b].tool # "none" /\ breq[b].status = "budget_exceeded") =>
                breq[b].fetches = 0 /\ breq[b].tokens = 0 /\ breq[b].sent = 0

Outcomes == {"success", "budget_exceeded", "payment_required", "error"}

\* buyer thread b returns from a purchase tool in this step
Returns(b) == bpc'[b] = "returned" /\ (bpc[b] # "returned" \/ breq'[b] # breq[b])

\* C17 as claimed: a purchase returns one of the four outcomes, and when the
\* outcome is not success credits_used is 0 and the step that returns leaves
\* dailySpend, totalSpend, purchaseCount and the stored purchases unchanged.
C17_FailureLeavesBudget ==
    [][program = "buyer" =>
         \A b \in Buyers :
             Returns(b) =>
                 /\ breq'[b].status \in Outcomes
                 /\ breq'[b].status # "success" =>
                       /\ breq'[b].credits_used = 0
                       /\ UNCHANGED <<daily_spend, total_spend, purchase_count, purchases>>
    ]_vars

\* C17 amended: a purchase returns one of the four outcomes; when the
\* outcome is not success credits_used is 0 and the purchase made no
\* record_purchase call: no step of it changes totalSpend, purchaseCount or
\* the stored purchases, and dailySpend changes only by the reset to 0 of
\* its budget pre-check on a new date.
C17_FailureRecordsNothing ==
    [][program = "buyer" =>
         /\ \A b \in Buyers :
               Returns(b) =>
                   /\ breq'[b].status \in Outcomes
                   /\ breq'[b].status # "success" =>
                         breq'[b].credits_used = 0 /\ breq'[b].recorded = 0
         /\ (\A b \in Buyers :
                ~(Returns(b) /\ breq'[b].status = "success" /\ breq'[b].credits_used > 0)) =>
               /\ UNCHANGED <<total_spend, purchase_count, purchases>>
               /\ \/ daily_spend' = daily_spend
                  \/ today # current_day /\ today' = today /\ daily_spend' = 0
    ]_vars

\* C17 witness: on the new date a purchase returned budget_exceeded and
\* another returned payment_required after its paid request, with the spend
\* of the old date still in totalSpend and dailySpend reset
C17_Witness ==
    /\ program = "buyer"
    /\ today = 1 /\ current_day = 1
    /\ daily_spend = 0 /\ total_spend > 0
    /\ \E b, c \in Buyers :
          /\ bpc[b] = "returned" /\ breq[b].status = "budget_exceeded"
          /\ bpc[c] = "returned" /\ breq[c].status = "payment_required"
          /\ breq[c].sent = 1

\* C18 as claimed: a POST /data request without payment-signature header is
\* answered 402 (with the payment-required header), never 200.
C18_NoHeaderGets402 ==
    program = "http" =>
        \A i \in 1..Len(responses) :
            ~responses[i].payment_token => responses[i].status = 402

\* C19: when the agent raises, POST /data answers 500; the analytics
\* (request count, credit total) grow by one request and by the credits
\* reported for each 200 response, and are left alone by every 402 and 500
\* response and by every step that sends no response.
C19_RevenuePer200 ==
    [][program = "http" =>
         IF Len(responses') = Len(responses)
         THEN UNCHANGED analytics
         ELSE LET r == responses'[Len(responses')]
              IN  /\ Len(responses') = Len(responses) + 1
                  /\ r.status \in {200, 402, 500}
                  /\ (r.status = 500) <=> (hpc = "raised")
                  /\ r.status = 200 =>
                        /\ analytics'.total_requests = analytics.total_requests + 1
                        /\ analytics'.total_credits =
                               analytics.total_credits + r.credits_used[1]
                  /\ r.status # 200 => UNCHANGED analytics
    ]_vars

\* C19 witness: a 200 response reporting 5 credits, a 402 and a 500 were
\* sent, and the analytics count one request and 5 credits
C19_Witness ==
    /\ program = "http"
    /\ Len(responses) = 3
    /\ \E i, j, k \in 1..3 :
          /\ responses[i].status = 200 /\ responses[i].credits_used = <<5>>
          /\ responses[j].status = 402
          /\ responses[k].status = 500
    /\ analytics = [total_requests |-> 1, total_credits |-> 5]

\* C20 as claimed: after every record_purchase call the stored sequence of
\* purchases holds at most 5 records, the 5 most recent in recording order,
\* and get_status reports exactly the stored sequence.
C20_StoredPurchasesBounded ==
    program = "history" =>
        /\ Len(purchases) <= 5
        /\ Len(purchases) = Len(LastN(calls, 5))
        /\ \A i \in 1..Len(purchases) : purchases[i].credits = LastN(calls, 5)[i]
        /\ ret.op = "get_status" => ret.result.recent_purchases = purchases

\* C21 as claimed: a daily-limit denial of can_spend cites, in this order,
\* the current daily spend, the remaining budget and the daily limit; a
\* per-request denial cites the requested amount and the per-request limit.
C21_DenialCitesNumbers ==
    (program = "budget" /\ ret.op = "can_spend" /\ ~ret.result.allowed) =>
        /\ ret.result.reason = "daily" =>
               ret.result.cites =
                   <<daily_spend, max_daily - daily_spend, max_daily>>
        /\ ret.result.reason = "per_request" =>
               ret.result.cites = <<ret.credits, max_per_request>>

\* the url without its trailing slashes, stated on positions
Strip(u) ==
    LET n == CHOOSE n \in 0..Len(u) :
                 /\ n = 0 \/ u[n] # "/"
                 /\ \A m \in (n + 1)..Len(u) : u[m] = "/"
    IN  SubSeq(u, 1, n)

\* the SellerInfo that a descriptor alone describes for a url: each field
\* from the descriptor (the payment fields from its first payment
\* extension), the default where the descriptor has none
Described(url, card) ==
    LET Or(d, k, default) == IF k \in DOMAIN d THEN d[k] ELSE default
        exts == Or(Or(card, "capabilities", EmptyDict), "extensions", <<>>)
        pay == {i \in 1..Len(exts) : "uri" \in DOMAIN exts[i] /\ exts[i].uri = "urn:nevermined:payment"}
        first == CHOOSE i \in pay : \A j \in pay : i <= j
        params == IF pay = {} THEN EmptyDict ELSE Or(exts[first], "params", EmptyDict)
    IN  [url |-> url,
         name |-> Or(card, "name", "Unknown Agent"),
         description |-> Or(card, "description", ""),
         skills |-> Or(card, "skills", <<>>),
         plan_id |-> Or(params, "planId", ""),
         agent_id |-> Or(params, "agentId", ""),
         credits |-> Or(params, "credits", 1),
         cost_description |-> Or(params, "costDescription", "")]

\* the register calls among the first n stored whose url normalizes to key
RegistrationsOf(key, n) == {i \in 1..n : Strip(reg_log[i].agent_url) = key}

\* the SellerInfo of the latest of them
LatestDescribed(key, n) ==
    LET regs == RegistrationsOf(key, n)
        last == CHOOSE i \in regs : \A j \in regs : j <= i
    IN  Described(key, reg_log[last].agent_card)

\* C22: register stores the entry under the url with its trailing slashes
\* stripped and returns the stored value; registering a registered url
\* again (with or without a trailing slash) replaces the whole SellerInfo:
\* every field comes from the latest descriptor or its default, and the
\* number of entries does not grow.
C22_RegisterReplaces ==
    program = "registry" =>
        /\ dict_keys(sellers) = {Strip(reg_log[i].agent_url) : i \in 1..Len(reg_log)}
        /\ Len(sellers) = Cardinality(dict_keys(sellers))
        /\ \A i \in 1..Len(sellers) :
              sellers[i].value = LatestDescribed(sellers[i].key, Len(reg_log))
        /\ \A th \in Clients :
              /\ (rthr[th].op = "register" /\ rthr[th].pc = "unlock") =>
                     dict_get(sellers, Strip(rthr[th].agent_url)) = rthr[th].local
              /\ (rthr[th].op = "register" /\ rthr[th].pc = "returned") =>
                     rthr[th].result =
                         Described(Strip(reg_log[rthr[th].seen].agent_url),
                                   reg_log[rthr[th].seen].agent_card)

\* C22 witness: a url registered with the full descriptor was registered
\* again, with a trailing slash and a descriptor that has no name, no skills
\* and a plan id only; the one entry holds the defaults and the call returned
C22_Witness ==
    /\ program = "registry"
    /\ Len(reg_log) = 2 /\ Len(sellers) = 1
    /\ reg_log[1].agent_url = <<"a">> /\ reg_log[2].agent_url = <<"a", "/">>
    /\ "name" \in DOMAIN reg_log[1].agent_card
    /\ "name" \notin DOMAIN reg_log[2].agent_card
    /\ sellers[1].key = <<"a">>
    /\ sellers[1].value.name = "Unknown Agent" /\ sellers[1].value.skills = <<>>
    /\ sellers[1].value.plan_id = "plan-2" /\ sellers[1].value.credits = 1
    /\ \E th \in Clients :
          rthr[th].op = "register" /\ rthr[th].pc = "returned" /\ rthr[th].seen = 2

\* the normalized urls of the first n stored register calls, each once, in
\* the order in which they were first registered
RECURSIVE FirstRegistered(_)
FirstRegistered(n) ==
    IF n = 0 THEN <<>>
    ELSE LET before == FirstRegistered(n - 1)
             key == Strip(reg_log[n].agent_url)
         IN  IF \E i \in 1..Len(before) : before[i] = key THEN before
             ELSE Append(before, key)

\* C23: after any sequence of register calls, concurrent ones included, the
\* registry holds every registered url once, in the order of first
\* registration (registering a url again keeps its position); list_all
\* returns the sellers in that order and get_first_url the first of them,
\* None when nothing is registered.
C23_InsertionOrder ==
    program = "registry" =>
        /\ [i \in 1..Len(sellers) |-> sellers[i].key] = FirstRegistered(Len(reg_log))
        /\ \A th \in Clients :
              LET order == FirstRegistered(rthr[th].seen)
              IN  /\ (rthr[th].op = "list_all" /\ rthr[th].pc = "returned") =>
                         [i \in 1..Len(rthr[th].result.list) |-> rthr[th].result.list[i].url]
                             = order
                  /\ (rthr[th].op = "get_first_url" /\ rthr[th].pc = "returned") =>
                         rthr[th].result =
                             IF order = <<>> THEN None ELSE [url |-> order[1]]

\* C23 witness: url a, url b and url a again (with another descriptor) were
\* registered, the second by the other thread; list_all then returned a
\* before b
C23_Witness ==
    /\ program = "registry"
    /\ Len(reg_log) = 3
    /\ Strip(reg_log[1].agent_url) = <<"a">>
    /\ Strip(reg_log[2].agent_url) = <<"b">>
    /\ Strip(reg_log[3].agent_url) = <<"a">>
    /\ reg_log[3].agent_card # reg_log[1].agent_card
    /\ \E th \in Clients :
          /\ rthr[th].op = "list_all" /\ rthr[th].pc = "returned" /\ rthr[th].seen = 3
          /\ Len(rthr[th].result.list) = 2
          /\ rthr[th].result.list[1].url = <<"a">>
          /\ rthr[th].result.list[2].url = <<"b">>
          /\ \E other \in Clients \ {th} :
                rthr[other].op = "register" /\ rthr[other].seen = 2

HeldValue ==
    IF held.op = "get_status"
    THEN [i \in 1..Len(held.refs) |-> purchases[held.refs[i]]]
    ELSE held.list

\* C25 as claimed: what get_status and list_all return are snapshot
\* copies: a change the caller makes in a returned value leaves the Budget
\* and the registry as they were, and a later record_purchase or register
\* call leaves a value already returned as it was.
C25_SnapshotsAreCopies ==
    [][ program = "snapshot" =>
           /\ held'.changes # held.changes => UNCHANGED <<budgetVars, sellers>>
           /\ held' = held => HeldValue' = HeldValue
      ]_vars

\* C26 as claimed: every PurchaseRecord held by a Budget has credits > 0,
\* whichever buyer code recorded it: the purchase_data and purchase_a2a
\* tools or the scripted client flow.
C26_RecordedCreditsPositive ==
    program \in {"buyer", "client"} =>
        \A i \in 1..Len(purchases) : purchases[i].credits > 0

\* C27 as claimed: the credits that purchase_data or purchase_a2a passes to
\* record_purchase never exceed the amount the same request had admitted
\* with can_spend; so with a per-request limit set no recorded purchase is
\* larger than it, and a buyer running alone never takes dailySpend above
\* a daily limit that is set.
C27_RecordedWithinAdmitted ==
    [][ program = "buyer" =>
           \A b \in Buyers :
               (bpc[b] = "sent" /\ breq'[b].recorded = breq[b].recorded + 1) =>
                   LET recorded == purchases'[Len(purchases')].credits
                   IN  /\ recorded <= breq[b].min_credits
                       /\ max_per_request > 0 => recorded <= max_per_request
                       /\ (max_daily > 0 /\ \A other \in Buyers \ {b} : bpc[other] = "idle")
                              => daily_spend' <= max_daily
      ]_vars

\* the credits billed to task t by its Completed events
Billed(t) ==
    SumSeq([i \in 1..Len(events[t]) |->
               IF events[t][i].state = "completed" THEN events[t][i].creditsUsed[1]
               ELSE 0])

\* C28 as claimed: when tasks run concurrently on the seller's one shared
\* agent, each Completed event bills only the tool invocations made for
\* its own task, whatever another task appended to the shared history in
\* the meantime, and no tool invocation is billed to two tasks: the tasks
\* that completed are billed, together, no more than their own invocations
\* cost.
C28_ConcurrentBilling ==
    program = "a2a" =>
        LET completed == {t \in Tasks : EventsIn(t, "completed") # {}}
        IN  /\ \A t \in completed : Billed(t) <= OwnCredits(t)
            /\ SumSeq([t \in Tasks |-> IF t \in completed THEN Billed(t) ELSE 0])
                   <= SumSeq([t \in Tasks |-> IF t \in completed THEN OwnCredits(t) ELSE 0])

\* the events of a stream that have a task status, and among them the
\* completed or failed ones
WithStatus(es) == {i \in 1..Len(es) : es[i].state # "none"}
Deciding(es) == {i \in 1..Len(es) : es[i].state \in {"completed", "failed"}}
LastOf(S) == CHOOSE i \in S : \A j \in S : j <= i

\* the creditsUsed of an event: the status update's, the task's when that is
\* 0 or absent, 0 when both are absent
CreditsOf(e) ==
    LET In(m) == IF m # None /\ "creditsUsed" \in DOMAIN m THEN m.creditsUsed ELSE 0
    IN  IF In(e.update_metadata) # 0 THEN In(e.update_metadata) ELSE In(e.task_metadata)

\* C29 as claimed: _extract_from_events decides from the last event whose
\* state is completed or failed: completed gives success with that event's
\* creditsUsed, failed gives error with 0 credits, a stream with neither
\* gives success with 0 credits; and a stream whose final state is failed
\* or canceled never yields credits_used > 0.
C29_ExtractFromEvents ==
    (program = "extract" /\ "result" \in DOMAIN extract) =>
        LET es == extract.events
            r == extract.result
        IN  /\ Deciding(es) = {} => r.status = "success" /\ r.credits_used = 0
            /\ Deciding(es) # {} =>
                   LET e == es[LastOf(Deciding(es))]
                   IN  IF e.state = "completed"
                       THEN r.status = "success" /\ r.credits_used = CreditsOf(e)
                       ELSE r.status = "error" /\ r.credits_used = 0
            /\ (WithStatus(es) # {}
                    /\ es[LastOf(WithStatus(es))].state \in {"failed", "canceled"})
                   => r.credits_used = 0

\* the registration thread is over in line with the claim: no more than 3
\* POSTs, none after a 200, and when it is done either the last POST was
\* answered 200 or all 3 attempts failed
RegistrationBounded ==
    LET posts == registration.posts
    IN  /\ Len(posts) <= 3
        /\ \A i \in 1..(Len(posts) - 1) : ~Registered(posts[i])
        /\ registration.pc = "done" =>
               /\ posts # <<>>
               /\ Registered(posts[Len(posts)]) \/ Len(posts) = 3
               /\ (registration.log = "SUCCESS") <=> Registered(posts[Len(posts)])

\* C30: the seller's self-registration always terminates, after at most 3
\* POST attempts: it stops right after the first attempt answered 200,
\* tries again after a connection error as after a non-200 answer, and
\* gives up after the third failed attempt.
C30_RegistrationTerminates ==
    /\ [](program = "registration" => RegistrationBounded)
    /\ (program = "registration") ~> (registration.pc = "done")

\* C30 witness: a connection error, then a 500, then a timeout; after the
\* third failure the thread gave up
C30_Witness ==
    /\ program = "registration"
    /\ registration.pc = "done" /\ registration.log = "ERROR"
    /\ registration.posts = <<[exception |-> "ConnectError"], [status |-> 500],
                              [exception |-> "ReadTimeout"]>>

====
